---- MODULE Spec2Model ----
(***************************************************************************)
(* Master session loop of dnp3/src/master/session.rs: the run loop, the    *)
(* solicited Read and NonRead exchanges, the unsolicited path and the      *)
(* control message intake, as one state machine.                           *)
(*                                                                         *)
(* A step of the model is what the session does between two suspension     *)
(* points of run(): the select! of idle_forever / read_next_response picks *)
(* one ready branch and the code runs to the next select!.  A transport    *)
(* write is awaited outside any select!, so nothing interleaves with it;   *)
(* its only outcomes are success and LinkError, drawn as an input.         *)
(*                                                                         *)
(* ev is the ordered list of the effects of the last step (transport       *)
(* writes, process_iin, handler and callback calls), in the order in which *)
(* the code performs them; frag is the fragment popped in the last step.   *)
(***************************************************************************)
EXTENDS Integers, Sequences, FiniteSets, TLC

\* ---------------------------------------------------------------- bounds
MaxEvents == 5      \* control messages, fragments and tasks started in one run
MaxQueue == 1       \* ad-hoc tasks queued per association
ResponseTimeout == 1   \* the configured response timeout, in clock ticks

\* ------------------------------------------------------- program constants
SeqModulus == 16    \* Sequence is a 4-bit counter
HandlerSource == 1024   \* the source ReadTask::handle passes to the handler

Addr == {1, 2}                       \* EndpointAddress values in play
InitSeqs == {SeqModulus - 2, SeqModulus - 1}   \* seq of association 1 after earlier requests
IINs == {"none", "restart"}          \* IIN without / with DEVICE_RESTART
TaskNames == {"Read", "Select"}   \* ad-hoc tasks a caller can enqueue

VARIABLES
    registered,   \* AssociationMap: the registered addresses
    seq,          \* Association.seq per address
    flags,        \* Association pending housekeeping flags per address
    adhoc,        \* Association queue of ad-hoc tasks per address
    pc,           \* where run() is: "pick", "idle", "wait", "done"
    task,         \* the task of the exchange in flight (NoTask when none)
    expSeq,       \* local seq of run_non_read_task / execute_read_task
    isFirst,      \* local is_first of execute_read_task
    deadline,     \* local deadline of the current wait, as the ticks left until it
    nev,          \* control messages, fragments and tasks started so far
    frag,         \* fragment popped in the last step (NoFrag when none)
    ev,           \* effects of the last step, in program order
    got,          \* fragments of the current read that came from the target with the next seq
    reqSeq,       \* seq carried by the request of the current exchange
    removed,      \* the target was removed by a control message during the current exchange
    runErr,       \* what run() returned ("none" while running)
    queue,        \* user_queue: the control messages sent and not yet received
    polls,        \* Association polls per address: "none", "due" or "later"
    cc            \* a ControlCode conversion: the byte, the code made from it, the byte
                  \* made from the code, the code made from that byte

vars == <<registered, seq, flags, adhoc, pc, task, expSeq, isFirst, deadline,
          nev, frag, ev, got, reqSeq, removed, runErr, queue, polls, cc>>

\* the state of the session
sessionVars == <<registered, seq, flags, adhoc, pc, task, expSeq, isFirst, deadline,
                 nev, frag, ev, got, reqSeq, removed, runErr, queue, polls>>

NoFrag == [src |-> 0, unsol |-> FALSE, seq |-> 0, fir |-> FALSE, fin |-> FALSE,
           con |-> FALSE, iin |-> "none", objects |-> "none"]

NoTask == [kind |-> "None", name |-> "None", addr |-> 0]

NoCode == [tcc |-> [variant |-> "None", value |-> 0], clear |-> FALSE, queue |-> FALSE,
           op_type |-> [variant |-> "None", value |-> 0]]

NoConversion == [stage |-> "none", byte |-> 0, code |-> NoCode, back |-> 0, again |-> NoCode]

\* Sequence::increment
Inc(s) == (s + 1) % SeqModulus

\* the seq before s
Dec(s) == (s + SeqModulus - 1) % SeqModulus

\* One effect of a step.  e names the call; ok is the outcome of a transport write.
Ev(e, a, s, info, ok) == [e |-> e, addr |-> a, seq |-> s, info |-> info, ok |-> ok]

\* the pending housekeeping flags of an association, in the order they are served
FlagOrder == <<"ClearRestart", "DisableUnsolicited", "IntegrityPoll", "EnableUnsolicited">>
Flags == {FlagOrder[i] : i \in DOMAIN FlagOrder}

\* the task that serves a flag: an AutoTask, or the integrity poll (a read)
FlagTask(fl) == IF fl = "ClearRestart" THEN "ClearRestartBit" ELSE fl

\* the flag a task serves ("none" for a task that serves no flag)
TaskFlag(name) ==
    IF name = "ClearRestartBit" THEN "ClearRestart"
    ELSE IF name \in Flags THEN name ELSE "none"

ReadNames == {"Read", "IntegrityPoll", "Poll"}   \* the tasks that are read requests

Tasks == [kind : {"Read", "NonRead"},
          name : TaskNames \cup {"Operate", "ClearRestartBit"},
          addr : Addr]

\* Task::Read for a read request, Task::NonRead(...) for everything else
MkTask(name, a) ==
    [kind |-> IF name \in ReadNames THEN "Read" ELSE "NonRead", name |-> name, addr |-> a]

Frag(src, unsol, s, fir, fin, con, iin, objects) ==
    [src |-> src, unsol |-> unsol, seq |-> s, fir |-> fir, fin |-> fin, con |-> con,
     iin |-> iin, objects |-> objects]

\* Unsolicited responses the transport reader can yield
UnsolFrags(s) ==
    {Frag(a, TRUE, s, TRUE, TRUE, c, i, "ok") : a \in Addr, c \in BOOLEAN, i \in IINs}

\* Solicited responses the transport reader can yield while the session is idle
IdleFrags == UnsolFrags(0) \cup
    {Frag(a, FALSE, 0, TRUE, TRUE, c, i, "ok") : a \in Addr, c \in BOOLEAN, i \in IINs}

\* Responses the transport reader can yield while the session waits for the response
\* of target with seq s: every answer of the target with that seq, answers of the
\* target with a neighbouring seq, answers of another outstation, unsolicited ones
WaitFrags(target, s) == UnsolFrags(s)
    \cup [src : {target}, unsol : {FALSE}, seq : {s}, fir : BOOLEAN, fin : BOOLEAN,
          con : BOOLEAN, iin : IINs, objects : {"ok", "err"}]
    \cup {Frag(target, FALSE, x, TRUE, FALSE, c, i, "ok") :
             x \in {Inc(s), Dec(s)}, c \in BOOLEAN, i \in IINs}
    \cup {Frag(a, FALSE, s, TRUE, TRUE, c, i, "ok") :
             a \in Addr \ {target}, c \in BOOLEAN, i \in IINs}

\* Control.is_fir_and_fin
is_fir_and_fin(f) == f.fir /\ f.fin

(***************************************************************************)
(* The association state the session works on, threaded through the        *)
(* operators below the way &mut self is threaded through the methods.      *)
(***************************************************************************)
Cur == [reg |-> registered, seq |-> seq, flags |-> flags, adhoc |-> adhoc,
        polls |-> polls, ev |-> <<>>]

Emit(st, e) == [st EXCEPT !.ev = Append(@, e)]

\* Association::increment_seq: hands out the current seq and advances it
increment_seq(st, a) ==
    Emit([st EXCEPT !.seq[a] = Inc(@)], Ev("increment_seq", a, st.seq[a], "", TRUE))

\* process_iin that overlooks DEVICE_RESTART
process_iin_no_flag(st, a, iin) == Emit(st, Ev("process_iin", a, 0, iin, TRUE))

\* Association::process_iin: DEVICE_RESTART raises the ClearRestartBit flag
process_iin(st, a, iin) ==
    Emit([st EXCEPT !.flags[a] = IF iin = "restart" THEN @ \cup {"ClearRestart"} ELSE @],
         Ev("process_iin", a, 0, iin, TRUE))

\* register that moves the seq of an association that is registered already
register_moves_seq(st, a) ==
    IF a \in st.reg
    THEN Emit([st EXCEPT !.seq[a] = Inc(@)], Ev("callback", a, 0, "DuplicateAddress", TRUE))
    ELSE Emit([st EXCEPT !.reg = @ \cup {a}, !.seq[a] = 0, !.flags[a] = {},
                         !.adhoc[a] = <<>>, !.polls[a] = "none"],
              Ev("callback", a, 0, "Ok", TRUE))

\* AssociationMap::register
register(st, a) ==
    IF a \in st.reg
    THEN Emit(st, Ev("callback", a, 0, "DuplicateAddress", TRUE))
    ELSE Emit([st EXCEPT !.reg = @ \cup {a}, !.seq[a] = 0, !.flags[a] = {},
                         !.adhoc[a] = <<>>, !.polls[a] = "none"],
              Ev("callback", a, 0, "Ok", TRUE))

\* AssociationMap::remove
remove(st, a) ==
    [st EXCEPT !.reg = @ \ {a}, !.seq[a] = 0, !.flags[a] = {}, !.adhoc[a] = <<>>,
               !.polls[a] = "none"]

\* What a method returns: the association state it leaves, Ok/Err (or the variant it
\* returns), the task error, and the value carried by Ok
Ret(st, out, err, val) == [st |-> st, out |-> out, err |-> err, val |-> val]
Res(st, out, err) == Ret(st, out, err, 0)

\* MasterSession::confirm_solicited
confirm_solicited(st, destination, s, wok) ==
    Res(Emit(st, Ev("confirm_solicited", destination, s, "", wok)),
        IF wok THEN "Ok" ELSE "Err", IF wok THEN "none" ELSE "Lower")

\* MasterSession::confirm_unsolicited
confirm_unsolicited(st, destination, s, wok) ==
    Res(Emit(st, Ev("confirm_unsolicited", destination, s, "", wok)),
        IF wok THEN "Ok" ELSE "Err", IF wok THEN "none" ELSE "Lower")

\* send_request that does not look the association up
send_request_unchecked(st, address, t, wok) ==
    LET s  == st.seq[address]
        s1 == Emit(increment_seq(st, address), Ev("request", address, s, t.name, wok))
    IN  IF wok THEN Ret(s1, "Ok", "none", s) ELSE Res(s1, "Err", "Lower")

\* MasterSession::send_request: the seq handed out by increment_seq goes on the wire
send_request(st, address, t, wok) ==
    IF address \notin st.reg
    THEN Res(st, "Err", "NoSuchAssociation")
    ELSE LET s  == st.seq[address]
             s1 == Emit(increment_seq(st, address), Ev("request", address, s, t.name, wok))
         IN  IF wok THEN Ret(s1, "Ok", "none", s) ELSE Res(s1, "Err", "Lower")

\* handle_unsolicited that advances the seq of the source
handle_unsolicited_moves_seq(st, f, valid, wok) ==
    IF f.src \notin st.reg
    THEN Res(st, "Ok", "none")
    ELSE LET s1 == process_iin([st EXCEPT !.seq[f.src] = Inc(@)], f.src, f.iin)
             s2 == Emit(s1, Ev("handle_unsolicited_response", f.src, f.seq,
                               IF valid THEN "valid" ELSE "invalid", TRUE))
         IN  IF valid /\ f.con
             THEN confirm_unsolicited(s2, f.src, f.seq, wok)
             ELSE Res(s2, "Ok", "none")

\* handle_unsolicited that confirms whatever the handler said
handle_unsolicited_confirm_invalid(st, f, valid, wok) ==
    IF f.src \notin st.reg
    THEN Res(st, "Ok", "none")
    ELSE LET s1 == process_iin(st, f.src, f.iin)
             s2 == Emit(s1, Ev("handle_unsolicited_response", f.src, f.seq,
                               IF valid THEN "valid" ELSE "invalid", TRUE))
         IN  IF f.con
             THEN confirm_unsolicited(s2, f.src, f.seq, wok)
             ELSE Res(s2, "Ok", "none")

\* MasterSession::handle_unsolicited
handle_unsolicited(st, f, valid, wok) ==
    IF f.src \notin st.reg
    THEN Res(st, "Ok", "none")
    ELSE LET s1 == process_iin(st, f.src, f.iin)
             s2 == Emit(s1, Ev("handle_unsolicited_response", f.src, f.seq,
                               IF valid THEN "valid" ELSE "invalid", TRUE))
         IN  IF valid /\ f.con
             THEN confirm_unsolicited(s2, f.src, f.seq, wok)
             ELSE Res(s2, "Ok", "none")

\* ReadTask::handle: the response goes to the handler, with HandlerSource as its source
ReadTask_handle(st, f) == Emit(st, Ev("on_response", HandlerSource, f.seq, f.objects, TRUE))

\* ReadTask::process_response: the association takes the IIN, then the read handler
\* gets the header and the objects
ReadTask_process_response(st, a, f) ==
    ReadTask_handle(Emit(process_iin(st, a, f.iin),
                         Ev("process_response", a, f.seq, "Read", TRUE)), f)

\* on_task_error that leaves the flag of a failed housekeeping task cleared
on_task_error_drops_flag(st, t, err) ==
    LET known == t.addr \in st.reg
    IN  Emit([st EXCEPT !.flags[t.addr] = IF known THEN @ \ {TaskFlag(t.name)} ELSE @],
             Ev("on_task_error", IF known THEN t.addr ELSE 0, 0, err, TRUE))

\* Task::on_task_error(association, err): the callback runs with the association
\* when it is still registered (addr 0 in the event: without one); AutoTask::on_task_error
\* tells the association that its housekeeping task failed, which raises the flag again
on_task_error(st, t, err) ==
    LET known == t.addr \in st.reg
        raise == known /\ TaskFlag(t.name) # "none"
    IN  Emit([st EXCEPT !.flags[t.addr] = IF raise THEN @ \cup {TaskFlag(t.name)} ELSE @],
             Ev("on_task_error", IF known THEN t.addr ELSE 0, 0, err, TRUE))

\* run_read_task that does not tell the task of its completion
ReadTask_complete_silent(st, t) == st

\* ReadTask::complete
ReadTask_complete(st, t) ==
    Emit([st EXCEPT !.flags[t.addr] = @ \ {TaskFlag(t.name)}],
         Ev("complete", t.addr, 0, t.name, TRUE))

\* NonReadTask::handle: Select answered by the echoed headers yields the Operate step;
\* AutoTask::handle clears the flag of its housekeeping task and yields None
NonReadTask_handle(st, t, f) ==
    LET s1 == Emit(st, Ev("handle", t.addr, f.seq, t.name, TRUE))
    IN  IF f.objects = "err"
        THEN Ret(on_task_error(s1, t, "BadResponse"), "None", "none", NoTask)
        ELSE IF t.name = "Select"
        THEN Ret(s1, "Some", "none", MkTask("Operate", t.addr))
        ELSE IF TaskFlag(t.name) # "none"
        THEN Ret(Emit([s1 EXCEPT !.flags[t.addr] = @ \ {TaskFlag(t.name)}],
                      Ev("complete", t.addr, 0, t.name, TRUE)),
                 "None", "none", NoTask)
        ELSE Ret(Emit(s1, Ev("complete", t.addr, 0, t.name, TRUE)), "None", "none", NoTask)

\* read_expected without the check of the seq
read_expected_any_seq(f, destination, s) == f.src = destination

\* process_read_response 484-500: the response is the one the exchange waits for
read_expected(f, destination, s) == f.src = destination /\ f.seq = s

\* read_validation that lets a later fragment carry FIR
read_validation_any_fir(f, is_first) ==
    IF ~f.fir /\ is_first THEN "NeverReceivedFir"
    ELSE IF ~f.fin /\ ~f.con THEN "NonFinWithoutCon"
    ELSE "none"

\* read_validation without the check of a non-final fragment's CON
read_validation_no_con(f, is_first) ==
    IF f.fir /\ ~is_first THEN "UnexpectedFir"
    ELSE IF ~f.fir /\ is_first THEN "NeverReceivedFir"
    ELSE "none"

\* process_read_response 502-514: the validations, in the order of the code
read_validation(f, is_first) ==
    IF f.fir /\ ~is_first THEN "UnexpectedFir"
    ELSE IF ~f.fir /\ is_first THEN "NeverReceivedFir"
    ELSE IF ~f.fin /\ ~f.con THEN "NonFinWithoutCon"
    ELSE "none"

\* read_confirm that leaves a final fragment unconfirmed
read_confirm_non_fin(st, destination, s, f, wok) ==
    IF f.con /\ ~f.fin THEN confirm_solicited(st, destination, s, wok)
    ELSE Res(st, "Ok", "none")

\* process_read_response 519-521: confirm when the fragment asks for it
read_confirm(st, destination, s, f, wok) ==
    IF f.con THEN confirm_solicited(st, destination, s, wok) ELSE Res(st, "Ok", "none")

\* process_read_response that does not look the destination up
process_read_response_no_lookup(st, destination, is_first, s, f, valid, wok) ==
    IF f.unsol
    THEN LET r == handle_unsolicited(st, f, valid, wok)
         IN  IF r.out = "Ok" THEN Res(r.st, "Ignore", "none") ELSE Res(r.st, "Err", "Lower")
    ELSE IF ~read_expected(f, destination, s) THEN Res(st, "Ignore", "none")
    ELSE IF read_validation(f, is_first) # "none"
    THEN Res(st, "Err", read_validation(f, is_first))
    ELSE IF f.objects = "err" THEN Res(st, "Err", "BadResponse")
    ELSE LET s1 == ReadTask_process_response(st, destination, f)
             c  == read_confirm(s1, destination, s, f, wok)
         IN  IF c.out = "Err" THEN Res(c.st, "Err", "Lower")
             ELSE IF f.fin THEN Res(c.st, "Complete", "none")
             ELSE Res(c.st, "ReadNext", "none")

\* process_read_response that confirms before it looks at the objects
process_read_response_confirm_first(st, destination, is_first, s, f, valid, wok) ==
    IF f.unsol
    THEN LET r == handle_unsolicited(st, f, valid, wok)
         IN  IF r.out = "Ok" THEN Res(r.st, "Ignore", "none") ELSE Res(r.st, "Err", "Lower")
    ELSE IF ~read_expected(f, destination, s) THEN Res(st, "Ignore", "none")
    ELSE IF read_validation(f, is_first) # "none"
    THEN Res(st, "Err", read_validation(f, is_first))
    ELSE IF destination \notin st.reg THEN Res(st, "Err", "NoSuchAssociation")
    ELSE LET c0 == read_confirm(st, destination, s, f, wok)
         IN  IF c0.out = "Err" THEN Res(c0.st, "Err", "Lower")
             ELSE IF f.objects = "err" THEN Res(c0.st, "Err", "BadResponse")
             ELSE LET s1 == ReadTask_process_response(c0.st, destination, f)
                  IN  IF f.fin THEN Res(s1, "Complete", "none")
                      ELSE Res(s1, "ReadNext", "none")

\* MasterSession::process_read_response
process_read_response(st, destination, is_first, s, f, valid, wok) ==
    IF f.unsol
    THEN LET r == handle_unsolicited(st, f, valid, wok)
         IN  IF r.out = "Ok" THEN Res(r.st, "Ignore", "none") ELSE Res(r.st, "Err", "Lower")
    ELSE IF ~read_expected(f, destination, s) THEN Res(st, "Ignore", "none")
    ELSE IF read_validation(f, is_first) # "none"
    THEN Res(st, "Err", read_validation(f, is_first))
    ELSE IF destination \notin st.reg THEN Res(st, "Err", "NoSuchAssociation")
    ELSE IF f.objects = "err" THEN Res(st, "Err", "BadResponse")
    ELSE LET s1 == ReadTask_process_response(st, destination, f)
             c  == read_confirm(s1, destination, s, f, wok)
         IN  IF c.out = "Err" THEN Res(c.st, "Err", "Lower")
             ELSE IF f.fin THEN Res(c.st, "Complete", "none")
             ELSE Res(c.st, "ReadNext", "none")

\* read_next that forgets to advance the association's seq
read_next_stale(st, destination) == st

\* execute_read_task 449-453: the next fragment is expected with the next seq
read_next(st, destination) == increment_seq(st, destination)

\* non_read_expected without the check of the source
non_read_expected_any_src(f, destination, s) == f.seq = s

\* validate_non_read_response 361-376: the response is the one the exchange waits for
non_read_expected(f, destination, s) == f.src = destination /\ f.seq = s

\* non_read_validation that is content with FIR
non_read_validation_fir(f) == IF ~f.fir THEN "MultiFragmentResponse" ELSE "none"

\* validate_non_read_response 378-380: a non-read response is one fragment
non_read_validation(f) == IF ~is_fir_and_fin(f) THEN "MultiFragmentResponse" ELSE "none"

\* MasterSession::validate_non_read_response
validate_non_read_response(st, destination, s, f, valid, wok) ==
    IF f.unsol
    THEN LET r == handle_unsolicited(st, f, valid, wok)
         IN  IF r.out = "Ok" THEN Res(r.st, "None", "none") ELSE Res(r.st, "Err", "Lower")
    ELSE IF ~non_read_expected(f, destination, s) THEN Res(st, "None", "none")
    ELSE IF non_read_validation(f) # "none" THEN Res(st, "Err", non_read_validation(f))
    ELSE Res(st, "Some", "none")

\* accept_non_read with the task handling the response before the IIN is applied
accept_non_read_late_iin(st, t, f) ==
    LET h == NonReadTask_handle(st, t, f)
    IN  Ret(process_iin(h.st, t.addr, f.iin), h.out, h.err, h.val)

\* run_non_read_task 315-317: the association takes the IIN, then the task handles
\* the response
accept_non_read(st, t, f) == NonReadTask_handle(process_iin(st, t.addr, f.iin), t, f)

\* AssociationMap::reset, then writer.reset and reader.reset: every association is
\* told the run error, its queued tasks fail with it
RECURSIVE reset_each(_, _, _)
reset_each(st, as, err) ==
    IF as = {} THEN st
    ELSE LET a == CHOOSE x \in as : \A y \in as : x <= y
         IN  reset_each(Emit([st EXCEPT !.adhoc[a] = <<>>], Ev("reset", a, 0, err, TRUE)),
                        as \ {a}, err)

\* reset that leaves the transport as it is
reset_associations_only(st, err) == reset_each(st, st.reg, err)

\* MasterSession::reset with writer.reset and reader.reset, run 107-109
reset(st, err) ==
    Emit(Emit(reset_each(st, st.reg, err), Ev("writer_reset", 0, 0, err, TRUE)),
         Ev("reader_reset", 0, 0, err, TRUE))

\* AssociationMap::next_task: associations in address order; a pending housekeeping
\* flag first, else the head of an ad-hoc queue
\* the first flag of the order that is pending in fs
top_flag(order, fs) ==
    order[CHOOSE i \in DOMAIN order :
              /\ order[i] \in fs
              /\ \A j \in DOMAIN order : j < i => order[j] \notin fs]

next_task_in(order, st) ==
    LET flagged == {a \in st.reg : st.flags[a] # {}}
        due     == {a \in st.reg : st.polls[a] = "due"}
        queued  == {a \in st.reg : st.adhoc[a] # <<>>}
        later   == {a \in st.reg : st.polls[a] = "later"}
        first(S) == CHOOSE x \in S : \A y \in S : x <= y
    IN  IF flagged # {}
        THEN Ret(st, "Now", "none",
                 MkTask(FlagTask(top_flag(order, st.flags[first(flagged)])), first(flagged)))
        ELSE IF due # {}
        THEN Ret([st EXCEPT !.polls[first(due)] = "later"], "Now", "none",
                 MkTask("Poll", first(due)))
        ELSE IF queued # {}
        THEN Ret([st EXCEPT !.adhoc[first(queued)] = Tail(@)], "Now", "none",
                 MkTask(Head(st.adhoc[first(queued)]), first(queued)))
        ELSE IF later # {}
        THEN Ret(st, "NotBefore", "none", NoTask)
        ELSE Ret(st, "None", "none", NoTask)

\* next_task that looks for EnableUnsolicited before DisableUnsolicited
next_task_enable_first(st) ==
    next_task_in(<<"ClearRestart", "EnableUnsolicited", "IntegrityPoll",
                   "DisableUnsolicited">>, st)

\* next_task that serves a due poll before the pending flags
next_task_poll_first(st) ==
    LET due == {a \in st.reg : st.polls[a] = "due"}
        a0  == CHOOSE x \in due : \A y \in due : x <= y
    IN  IF due # {}
        THEN Ret([st EXCEPT !.polls[a0] = "later"], "Now", "none", MkTask("Poll", a0))
        ELSE next_task_in(FlagOrder, st)

\* AssociationMap::next_task: the pending flags come first, of the first association
\* in address order that has one and in the order of FlagOrder; then the first poll
\* that is due; then the first ad-hoc task queued; one task per query
next_task(st) == next_task_in(FlagOrder, st)

\* Control messages a producer can push
Msgs ==
    [type : {"AddAssociation", "RemoveAssociation"}, addr : Addr, name : {"None"}]
    \cup [type : {"Association"}, addr : Addr, name : TaskNames]

\* recv that hands out the newest message of the queue
recv_newest(q) ==
    IF q = <<>> THEN [msgs |-> Msgs, rest |-> <<>>]
    ELSE [msgs |-> {q[Len(q)]}, rest |-> SubSeq(q, 1, Len(q) - 1)]

\* user_queue.recv() of process_message 172: the oldest message of the queue; with
\* none waiting, whatever message is sent next
recv(q) ==
    IF q = <<>> THEN [msgs |-> Msgs, rest |-> <<>>]
    ELSE [msgs |-> {Head(q)}, rest |-> Tail(q)]

\* process_message that registers the unknown target of an association message
process_message_registers_unknown(st, msg, is_connected) ==
    LET s0 == Emit(st, Ev("recv", msg.addr, 0, msg.type, TRUE))
    IN  IF msg.type = "AddAssociation" THEN register(s0, msg.addr)
        ELSE IF msg.type = "RemoveAssociation" THEN remove(s0, msg.addr)
        ELSE IF msg.addr \in s0.reg
        THEN IF is_connected
             THEN [s0 EXCEPT !.adhoc[msg.addr] = Append(@, msg.name)]
             ELSE Emit(s0, Ev("task_refused", msg.addr, 0, "NoConnection", TRUE))
        ELSE Emit([s0 EXCEPT !.reg = @ \cup {msg.addr}],
                  Ev("on_association_failure", msg.addr, 0, "NoSuchAssociation", TRUE))

\* MasterSession::process_message with a message received (process_master_message
\* included); an association message to an unknown address fails on its own callback;
\* Association::process_message queues a task when connected and refuses it otherwise
process_message(st, msg, is_connected) ==
    LET s0 == Emit(st, Ev("recv", msg.addr, 0, msg.type, TRUE))
    IN  IF msg.type = "AddAssociation" THEN register(s0, msg.addr)
        ELSE IF msg.type = "RemoveAssociation" THEN remove(s0, msg.addr)
        ELSE IF msg.addr \in s0.reg
        THEN IF is_connected
             THEN [s0 EXCEPT !.adhoc[msg.addr] = Append(@, msg.name)]
             ELSE Emit(s0, Ev("task_refused", msg.addr, 0, "NoConnection", TRUE))
        ELSE Emit(s0, Ev("on_association_failure", msg.addr, 0, "NoSuchAssociation", TRUE))

\* The queue of an association takes MaxQueue tasks
Deliverable(msg) ==
    msg.type = "Association" /\ msg.addr \in registered
        => Len(adhoc[msg.addr]) < MaxQueue

\* RunError that reports a link error as a shutdown
RunError_link_as_shutdown(err) == IF err = "Lower" THEN "Shutdown" ELSE err

\* TaskError -> RunError of run_task
RunError(err) == IF err = "Lower" THEN "Link" ELSE err

\* Fatal that takes a response timeout for a run error too
Fatal_with_timeout(err) == err \in {"Shutdown", "Lower", "ResponseTimeout"}

\* run_task 264-271: the task errors that end run()
Fatal(err) == err \in {"Shutdown", "Lower"}

\* ------------------------------------------------------- state updates
Commit(st) ==
    /\ registered' = st.reg
    /\ seq' = st.seq
    /\ flags' = st.flags
    /\ adhoc' = st.adhoc
    /\ polls' = st.polls
    /\ ev' = st.ev
    /\ UNCHANGED cc

\* run() goes back to the top of its loop
ToPick(st, t, f) ==
    /\ Commit(st)
    /\ pc' = "pick" /\ task' = t /\ frag' = f
    /\ expSeq' = 0 /\ isFirst' = TRUE /\ deadline' = 0
    /\ UNCHANGED <<reqSeq, runErr>>

\* run() returns err: lines 106-111
Exit(st, err, t, f) ==
    /\ Commit(reset(st, RunError(err)))
    /\ pc' = "done" /\ task' = t /\ frag' = f /\ runErr' = RunError(err)
    /\ expSeq' = 0 /\ isFirst' = TRUE /\ deadline' = 0
    /\ UNCHANGED reqSeq

\* the exchange of task t is over with err ("none": reported by the task itself)
EndTask(st, err, t, f) ==
    IF Fatal(err) THEN Exit(st, err, t, f) ELSE ToPick(st, t, f)

\* KeepWaiting that takes a new deadline on every turn of the loop
KeepWaiting_fresh(st, f) ==
    /\ Commit(st)
    /\ frag' = f
    /\ deadline' = ResponseTimeout
    /\ UNCHANGED <<pc, task, expSeq, isFirst, reqSeq, runErr>>

\* read_next_response 216-229 and the inner loops of run_non_read_task and
\* execute_read_task: the wait for a response goes on under the same deadline
KeepWaiting(st, f) ==
    /\ Commit(st)
    /\ frag' = f
    /\ UNCHANGED <<pc, task, expSeq, isFirst, deadline, reqSeq, runErr>>

\* StartExchange that goes on matching responses against the seq of the step before
StartExchange_stale_seq(st, t, wok, f) ==
    LET r == send_request(st, t.addr, t, wok)
    IN  IF r.out = "Ok"
        THEN /\ Commit(r.st)
             /\ pc' = "wait" /\ task' = t /\ frag' = f
             /\ expSeq' = expSeq /\ reqSeq' = r.val /\ isFirst' = TRUE
             /\ deadline' = ResponseTimeout
             /\ UNCHANGED runErr
        ELSE /\ EndTask(on_task_error(r.st, t, r.err), r.err, t, f)

\* send the request of t and start waiting: run_non_read_task 286-294,
\* execute_read_task 427-432 with run_read_task 400-411
StartExchange(st, t, wok, f) ==
    LET r == send_request(st, t.addr, t, wok)
    IN  IF r.out = "Ok"
        THEN /\ Commit(r.st)
             /\ pc' = "wait" /\ task' = t /\ frag' = f
             /\ expSeq' = r.val /\ reqSeq' = r.val /\ isFirst' = TRUE
             /\ deadline' = ResponseTimeout
             /\ UNCHANGED runErr
        ELSE /\ EndTask(on_task_error(r.st, t, r.err), r.err, t, f)

\* what the ghost got keeps of a fragment
Shape(f) == [fir |-> f.fir, fin |-> f.fin, con |-> f.con, objects |-> f.objects]

\* ------------------------------------------------------------- actions
Init ==
    /\ registered = {1}
    /\ \E s \in InitSeqs : seq = [a \in Addr |-> IF a = 1 THEN s ELSE 0]
    /\ flags = [a \in Addr |-> {}]
    /\ adhoc = [a \in Addr |-> <<>>]
    /\ polls = [a \in Addr |-> "none"]
    /\ cc = NoConversion
    /\ pc = "pick"
    /\ task = NoTask
    /\ expSeq = 0 /\ isFirst = TRUE /\ deadline = 0
    /\ nev = 0
    /\ frag = NoFrag /\ ev = <<>>
    /\ got = <<>> /\ reqSeq = 0 /\ removed = FALSE
    /\ runErr = "none"
    /\ queue = <<>>

\* a loop that does not await the task before it
can_run_next_eager == pc \in {"pick", "wait"}

\* run, lines 99-104: the loop asks for the next task only once the task before it
\* has been awaited to its end
can_run_next == pc = "pick"

\* run, lines 99-104: ask for the next task; run it or go idle
run_next ==
    /\ can_run_next
    /\ UNCHANGED queue
    /\ got' = <<>> /\ removed' = FALSE
    /\ LET n == next_task(Cur)
       IN  IF n.out = "Now"
           THEN /\ nev < MaxEvents
                /\ nev' = nev + 1
                /\ \E wok \in BOOLEAN : StartExchange(n.st, n.val, wok, NoFrag)
           ELSE /\ UNCHANGED nev
                /\ Commit(n.st)
                /\ pc' = "idle" /\ task' = NoTask /\ frag' = NoFrag
                /\ UNCHANGED <<expSeq, isFirst, deadline, reqSeq, runErr>>

\* idle_forever, first branch: a control message, then the tasks are rechecked
idle_message ==
    /\ pc = "idle"
    /\ nev < MaxEvents
    /\ nev' = nev + 1
    /\ UNCHANGED <<got, removed>>
    /\ queue' = recv(queue).rest
    /\ \E msg \in recv(queue).msgs :
          /\ Deliverable(msg)
          /\ ToPick(process_message(Cur, msg, TRUE), NoTask, NoFrag)

\* idle_forever: the queue is closed
idle_shutdown ==
    /\ pc = "idle"
    /\ queue = <<>> /\ UNCHANGED queue
    /\ UNCHANGED <<nev, got, removed>>
    /\ Exit(Cur, "Shutdown", NoTask, NoFrag)

\* handle_fragment_while_idle that lets the association of a solicited response take
\* its IIN
idle_fragment_applies_iin ==
    /\ pc = "idle"
    /\ UNCHANGED queue
    /\ nev < MaxEvents
    /\ nev' = nev + 1
    /\ UNCHANGED <<got, removed>>
    /\ \E f \in IdleFrags, valid \in BOOLEAN, wok \in BOOLEAN :
          /\ f.unsol \/ valid
          /\ (f.unsol /\ f.con) \/ wok
          /\ IF f.unsol
             THEN LET r == handle_unsolicited(Cur, f, valid, wok)
                  IN  EndTask(r.st, r.err, NoTask, f)
             ELSE ToPick(IF f.src \in registered THEN process_iin(Cur, f.src, f.iin) ELSE Cur,
                         NoTask, f)

\* idle_forever, second branch, with handle_fragment_while_idle
idle_fragment ==
    /\ pc = "idle"
    /\ UNCHANGED queue
    /\ nev < MaxEvents
    /\ nev' = nev + 1
    /\ UNCHANGED <<got, removed>>
    /\ \E f \in IdleFrags, valid \in BOOLEAN, wok \in BOOLEAN :
          /\ f.unsol \/ valid
          /\ (f.unsol /\ f.con) \/ wok
          /\ IF f.unsol
             THEN LET r == handle_unsolicited(Cur, f, valid, wok)
                  IN  EndTask(r.st, r.err, NoTask, f)
             ELSE ToPick(Cur, NoTask, f)

\* reader.read yields a link error, idle or waiting
read_error ==
    /\ pc \in {"idle", "wait"}
    /\ UNCHANGED queue
    /\ UNCHANGED <<nev, got, removed>>
    /\ IF pc = "wait"
       THEN Exit(on_task_error(Cur, task, "Lower"), "Lower", task, NoFrag)
       ELSE Exit(Cur, "Lower", NoTask, NoFrag)

\* wait_message that leaves the message in the queue until the task has ended
wait_message_deferred ==
    /\ pc = "wait"
    /\ UNCHANGED queue
    /\ nev < MaxEvents
    /\ nev' = nev + 1
    /\ UNCHANGED <<got, removed>>
    /\ KeepWaiting(Cur, NoFrag)

\* read_next_response, third branch: a control message during the wait
wait_message ==
    /\ pc = "wait"
    /\ nev < MaxEvents
    /\ nev' = nev + 1
    /\ UNCHANGED got
    /\ queue' = recv(queue).rest
    /\ \E msg \in recv(queue).msgs :
          /\ Deliverable(msg)
          /\ removed' = (removed \/ (msg.type = "RemoveAssociation" /\ msg.addr = task.addr))
          /\ KeepWaiting(process_message(Cur, msg, TRUE), NoFrag)

\* wait_shutdown that does not tell the task
wait_shutdown_silent ==
    /\ pc = "wait"
    /\ queue = <<>> /\ UNCHANGED queue
    /\ UNCHANGED <<nev, got, removed>>
    /\ Exit(Cur, "Shutdown", task, NoFrag)

\* read_next_response: the queue is closed during the wait
wait_shutdown ==
    /\ pc = "wait"
    /\ queue = <<>> /\ UNCHANGED queue
    /\ UNCHANGED <<nev, got, removed>>
    /\ Exit(on_task_error(Cur, task, "Shutdown"), "Shutdown", task, NoFrag)

\* read_next_response, first branch: the deadline has passed
wait_timeout ==
    /\ pc = "wait"
    /\ UNCHANGED queue
    /\ deadline = 0
    /\ UNCHANGED <<nev, got, removed>>
    /\ EndTask(on_task_error(Cur, task, "ResponseTimeout"), "ResponseTimeout", task, NoFrag)

\* execute_read_task 434-455 and run_read_task 400-413 on a fragment
read_fragment ==
    /\ pc = "wait" /\ task.kind = "Read"
    /\ UNCHANGED queue
    /\ nev < MaxEvents
    /\ nev' = nev + 1
    /\ UNCHANGED removed
    /\ \E f \in WaitFrags(task.addr, expSeq), valid \in BOOLEAN, wok \in BOOLEAN :
          /\ f.unsol \/ valid
          /\ f.con \/ wok
          /\ got' = IF ~f.unsol /\ f.src = task.addr
                       /\ f.seq = (reqSeq + Len(got)) % SeqModulus
                    THEN Append(got, Shape(f)) ELSE got
          /\ LET r == process_read_response(Cur, task.addr, isFirst, expSeq, f, valid, wok)
             IN  CASE r.out = "Ignore" -> KeepWaiting(r.st, f)
                   [] r.out = "Complete" ->
                        IF task.addr \in r.st.reg
                        THEN ToPick(ReadTask_complete(r.st, task), task, f)
                        ELSE ToPick(on_task_error(r.st, task, "NoSuchAssociation"), task, f)
                   [] r.out = "ReadNext" ->
                        IF task.addr \in r.st.reg
                        THEN /\ Commit(read_next(r.st, task.addr))
                             /\ expSeq' = r.st.seq[task.addr]
                             /\ isFirst' = FALSE
                             /\ deadline' = ResponseTimeout
                             /\ frag' = f
                             /\ UNCHANGED <<pc, task, reqSeq, runErr>>
                        ELSE EndTask(on_task_error(r.st, task, "NoSuchAssociation"),
                                     "NoSuchAssociation", task, f)
                   [] r.out = "Err" ->
                        EndTask(on_task_error(r.st, task, r.err), r.err, task, f)

\* run_non_read_task 296-333 on a fragment
non_read_fragment ==
    /\ pc = "wait" /\ task.kind = "NonRead"
    /\ UNCHANGED queue
    /\ nev < MaxEvents
    /\ nev' = nev + 1
    /\ UNCHANGED <<got, removed>>
    /\ \E f \in WaitFrags(task.addr, expSeq), valid \in BOOLEAN, wok \in BOOLEAN :
          /\ f.unsol \/ valid
          /\ f.con \/ task.name = "Select" \/ wok
          /\ LET r == validate_non_read_response(Cur, task.addr, expSeq, f, valid, wok)
             IN  CASE r.out = "None" -> KeepWaiting(r.st, f)
                   [] r.out = "Err" ->
                        EndTask(on_task_error(r.st, task, r.err), r.err, task, f)
                   [] r.out = "Some" ->
                        IF task.addr \notin r.st.reg
                        THEN EndTask(on_task_error(r.st, task, "NoSuchAssociation"),
                                     "NoSuchAssociation", task, f)
                        ELSE LET h == accept_non_read(r.st, task, f)
                             IN  IF h.out = "None"
                                 THEN ToPick(h.st, task, f)
                                 ELSE StartExchange(h.st, h.val, wok, f)

\* the transport reader yields no fragment (pop_response is None)
no_fragment ==
    /\ pc \in {"idle", "wait"}
    /\ UNCHANGED queue
    /\ UNCHANGED <<nev, got, removed>>
    /\ IF pc = "idle" THEN ToPick(Cur, NoTask, NoFrag) ELSE KeepWaiting(Cur, NoFrag)

\* time passes during a wait
tick ==
    /\ pc = "wait"
    /\ UNCHANGED queue
    /\ deadline > 0
    /\ deadline' = deadline - 1
    /\ frag' = NoFrag /\ ev' = <<>>
    /\ UNCHANGED <<cc, registered, seq, flags, adhoc, polls, pc, task, expSeq, isFirst,
                   nev, got, reqSeq, removed, runErr>>

\* delay_for that tells the associations the session is connected
delay_message_connected ==
    /\ pc = "delay"
    /\ nev < MaxEvents
    /\ nev' = nev + 1
    /\ queue' = recv(queue).rest
    /\ frag' = NoFrag
    /\ UNCHANGED <<pc, task, expSeq, isFirst, deadline, got, reqSeq, removed, runErr>>
    /\ \E msg \in recv(queue).msgs : Commit(process_message(Cur, msg, TRUE))

\* delay_for, first branch: a control message while the session is not connected
delay_message ==
    /\ pc = "delay"
    /\ nev < MaxEvents
    /\ nev' = nev + 1
    /\ queue' = recv(queue).rest
    /\ frag' = NoFrag
    /\ UNCHANGED <<pc, task, expSeq, isFirst, deadline, got, reqSeq, removed, runErr>>
    /\ \E msg \in recv(queue).msgs : Commit(process_message(Cur, msg, FALSE))

\* delay_for, second branch: the delay is over, the session connects and run() starts
delay_elapsed ==
    /\ pc = "delay"
    /\ pc' = "pick"
    /\ frag' = NoFrag /\ ev' = <<>>
    /\ UNCHANGED <<cc, registered, seq, flags, adhoc, polls, task, expSeq, isFirst, deadline,
                   nev, got, reqSeq, removed, runErr, queue>>

\* delay_for: the queue is closed, delay_for returns Err(Shutdown)
delay_shutdown ==
    /\ pc = "delay"
    /\ queue = <<>>
    /\ pc' = "stopped"
    /\ frag' = NoFrag /\ ev' = <<>>
    /\ UNCHANGED <<cc, registered, seq, flags, adhoc, polls, task, expSeq, isFirst, deadline,
                   nev, got, reqSeq, removed, runErr, queue>>

Next ==
    \/ run_next \/ idle_message \/ idle_shutdown \/ idle_fragment \/ read_error
    \/ wait_message \/ wait_shutdown \/ wait_timeout \/ read_fragment
    \/ non_read_fragment \/ no_fragment \/ tick

Spec == Init /\ [][Next]_vars

\* run_task 252-271 for any task, whatever associations are registered
run_task ==
    /\ pc = "pick"
    /\ nev < MaxEvents
    /\ nev' = nev + 1
    /\ got' = <<>> /\ removed' = FALSE
    /\ UNCHANGED queue
    /\ \E t \in Tasks, wok \in BOOLEAN : StartExchange(Cur, t, wok, NoFrag)

\* any association map the session can have come to
InitAnyMap ==
    /\ registered \in SUBSET Addr
    /\ seq \in [Addr -> 0..(SeqModulus - 1)]
    /\ \A a \in Addr \ registered : seq[a] = 0
    /\ flags = [a \in Addr |-> {}]
    /\ adhoc = [a \in Addr |-> <<>>]
    /\ polls = [a \in Addr |-> "none"]
    /\ cc = NoConversion
    /\ pc = "pick"
    /\ task = NoTask
    /\ expSeq = 0 /\ isFirst = TRUE /\ deadline = 0
    /\ nev = 0
    /\ frag = NoFrag /\ ev = <<>>
    /\ got = <<>> /\ reqSeq = 0 /\ removed = FALSE
    /\ runErr = "none"
    /\ queue = <<>>

\* get_next_task: one query of next_task, from the top of the loop of run()
get_next_task ==
    /\ pc = "pick"
    /\ LET n == next_task(Cur)
       IN  /\ Commit(Emit(n.st, Ev("next_task", n.val.addr, 0, n.out, TRUE)))
           /\ task' = n.val
    /\ pc' = "picked"
    /\ frag' = NoFrag
    /\ UNCHANGED <<expSeq, isFirst, deadline, nev, got, reqSeq, removed, runErr, queue>>

\* any pending flags, polls and ad-hoc tasks the associations can have
InitScheduling ==
    /\ registered \in SUBSET Addr
    /\ seq = [a \in Addr |-> 0]
    /\ flags \in [Addr -> SUBSET Flags]
    /\ adhoc \in [Addr -> {<<>>, <<"Select">>}]
    /\ polls \in [Addr -> {"none", "due", "later"}]
    /\ cc = NoConversion
    /\ \A a \in Addr \ registered : flags[a] = {} /\ adhoc[a] = <<>> /\ polls[a] = "none"
    /\ pc = "pick"
    /\ task = NoTask
    /\ expSeq = 0 /\ isFirst = TRUE /\ deadline = 0
    /\ nev = 0
    /\ frag = NoFrag /\ ev = <<>>
    /\ got = <<>> /\ reqSeq = 0 /\ removed = FALSE
    /\ runErr = "none"
    /\ queue = <<>>

NextScheduling == get_next_task

SpecScheduling == InitScheduling /\ [][NextScheduling]_vars

\* Association 1 has a housekeeping flag pending from its configuration
InitHousekeeping ==
    /\ registered = {1}
    /\ seq = [a \in Addr |-> IF a = 1 THEN SeqModulus - 1 ELSE 0]
    /\ \E fl \in {"DisableUnsolicited", "EnableUnsolicited"} :
          flags = [a \in Addr |-> IF a = 1 THEN {fl} ELSE {}]
    /\ adhoc = [a \in Addr |-> <<>>]
    /\ polls = [a \in Addr |-> "none"]
    /\ cc = NoConversion
    /\ pc = "pick"
    /\ task = NoTask
    /\ expSeq = 0 /\ isFirst = TRUE /\ deadline = 0
    /\ nev = 0
    /\ frag = NoFrag /\ ev = <<>>
    /\ got = <<>> /\ reqSeq = 0 /\ removed = FALSE
    /\ runErr = "none"
    /\ queue = <<>>

SpecHousekeeping == InitHousekeeping /\ [][Next]_vars

\* A read is queued for association 1, which has written no request yet or is at the
\* last seq before the wrap
InitQueuedRead ==
    /\ registered = {1}
    /\ \E s \in {0, SeqModulus - 1} : seq = [a \in Addr |-> IF a = 1 THEN s ELSE 0]
    /\ flags = [a \in Addr |-> {}]
    /\ adhoc = [a \in Addr |-> IF a = 1 THEN <<"Read">> ELSE <<>>]
    /\ polls = [a \in Addr |-> "none"]
    /\ cc = NoConversion
    /\ pc = "pick"
    /\ task = NoTask
    /\ expSeq = 0 /\ isFirst = TRUE /\ deadline = 0
    /\ nev = 0
    /\ frag = NoFrag /\ ev = <<>>
    /\ got = <<>> /\ reqSeq = 0 /\ removed = FALSE
    /\ runErr = "none"
    /\ queue = <<>>

SpecQueuedRead == InitQueuedRead /\ [][Next]_vars

\* idle_until, third branch: the instant of the next poll is reached; the poll that
\* was not yet due is due
idle_timer ==
    /\ pc = "idle"
    /\ next_task(Cur).out = "NotBefore"
    /\ UNCHANGED <<nev, got, removed, queue>>
    /\ \E a \in registered :
          /\ polls[a] = "later"
          /\ ToPick([Cur EXCEPT !.polls[a] = "due"], NoTask, NoFrag)

\* Association 1 has a poll that is not yet due
InitPolls ==
    /\ registered = {1}
    /\ seq = [a \in Addr |-> IF a = 1 THEN SeqModulus - 1 ELSE 0]
    /\ flags = [a \in Addr |-> {}]
    /\ adhoc = [a \in Addr |-> <<>>]
    /\ polls = [a \in Addr |-> IF a = 1 THEN "later" ELSE "none"]
    /\ cc = NoConversion
    /\ pc = "pick"
    /\ task = NoTask
    /\ expSeq = 0 /\ isFirst = TRUE /\ deadline = 0
    /\ nev = 0
    /\ frag = NoFrag /\ ev = <<>>
    /\ got = <<>> /\ reqSeq = 0 /\ removed = FALSE
    /\ runErr = "none"
    /\ queue = <<>>

NextPolls == Next \/ idle_timer

SpecPolls == InitPolls /\ [][NextPolls]_vars

NextRunTask == run_task

SpecRunTask == InitAnyMap /\ [][NextRunTask]_vars

\* Two control messages for one association were sent before the session was
\* connected: they wait in the queue while the session is in delay_for
Queued == {q \in Msgs \X Msgs : q[1].addr = q[2].addr}

InitQueued ==
    /\ registered = {1}
    /\ seq = [a \in Addr |-> IF a = 1 THEN SeqModulus - 1 ELSE 0]
    /\ flags = [a \in Addr |-> {}]
    /\ adhoc = [a \in Addr |-> <<>>]
    /\ polls = [a \in Addr |-> "none"]
    /\ cc = NoConversion
    /\ pc = "delay"
    /\ task = NoTask
    /\ expSeq = 0 /\ isFirst = TRUE /\ deadline = 0
    /\ nev = 0
    /\ frag = NoFrag /\ ev = <<>>
    /\ got = <<>> /\ reqSeq = 0 /\ removed = FALSE
    /\ runErr = "none"
    /\ queue \in Queued

NextQueued == Next \/ delay_message \/ delay_elapsed \/ delay_shutdown

SpecQueued == InitQueued /\ [][NextQueued]_vars

\* ------------------------------------------------------------ ControlCode
TCC_MASK == 192     \* 0b1100_0000
CR_MASK == 32       \* 0b0010_0000
QU_MASK == 16       \* 0b0001_0000
OP_MASK == 15       \* 0b0000_1111
TccShift == 6       \* the place of the trip-close code in the byte

\* u8 arithmetic
Pow2(n) == IF n = 0 THEN 1 ELSE IF n = 1 THEN 2 ELSE IF n = 2 THEN 4 ELSE IF n = 3 THEN 8
           ELSE IF n = 4 THEN 16 ELSE IF n = 5 THEN 32 ELSE IF n = 6 THEN 64 ELSE 128
Bit(x, i) == (x \div Pow2(i)) % 2
RECURSIVE BitSum(_, _)
BitSum(f, i) == IF i < 0 THEN 0 ELSE f[i] * Pow2(i) + BitSum(f, i - 1)
BitAnd(x, y) == BitSum([i \in 0..7 |-> Bit(x, i) * Bit(y, i)], 7)
BitOr(x, y) == BitSum([i \in 0..7 |-> IF Bit(x, i) + Bit(y, i) > 0 THEN 1 ELSE 0], 7)
Shl(x, n) == (x * Pow2(n)) % 256
Shr(x, n) == x \div Pow2(n)

\* the variants of the generated enums, by their values
TripCloseCodes == <<"Close", "Trip", "Reserved">>
OpTypes == <<"PulseOn", "PulseOff", "LatchOn", "LatchOff">>

Known(name) == [variant |-> name, value |-> 0]
Unknown(x) == [variant |-> "Unknown", value |-> x]

\* from(u8) of a generated enum: the variant of the value, Unknown(x) for any other
Enum_from(names, x) ==
    IF x = 0 THEN Known("Nul")
    ELSE IF x \in DOMAIN names THEN Known(names[x])
    ELSE Unknown(x)

\* as_u8 of a generated enum
Enum_as_u8(names, e) ==
    IF e.variant = "Unknown" THEN e.value
    ELSE IF e.variant = "Nul" THEN 0
    ELSE CHOOSE x \in DOMAIN names : names[x] = e.variant

\* ControlCode::from
ControlCode_from(x) ==
    [tcc     |-> Enum_from(TripCloseCodes, Shr(BitAnd(x, TCC_MASK), TccShift)),
     clear   |-> BitAnd(x, CR_MASK) # 0,
     queue   |-> BitAnd(x, QU_MASK) # 0,
     op_type |-> Enum_from(OpTypes, BitAnd(x, OP_MASK))]

\* as_u8 that puts the trip-close code one bit too low
ControlCode_as_u8_low_tcc(c) ==
    LET x1 == BitOr(0, Shl(Enum_as_u8(TripCloseCodes, c.tcc), TccShift - 1))
        x2 == IF c.clear THEN BitOr(x1, CR_MASK) ELSE x1
        x3 == IF c.queue THEN BitOr(x2, QU_MASK) ELSE x2
    IN  BitOr(x3, Enum_as_u8(OpTypes, c.op_type))

\* ControlCode::as_u8
ControlCode_as_u8(c) ==
    LET x1 == BitOr(0, Shl(Enum_as_u8(TripCloseCodes, c.tcc), TccShift))
        x2 == IF c.clear THEN BitOr(x1, CR_MASK) ELSE x1
        x3 == IF c.queue THEN BitOr(x2, QU_MASK) ELSE x2
    IN  BitOr(x3, Enum_as_u8(OpTypes, c.op_type))

\* any byte, before its conversion
InitControlCode ==
    /\ \E b \in 0..255 : cc = [NoConversion EXCEPT !.stage = "byte", !.byte = b]
    /\ registered = {}
    /\ seq = [a \in Addr |-> 0]
    /\ flags = [a \in Addr |-> {}]
    /\ adhoc = [a \in Addr |-> <<>>]
    /\ polls = [a \in Addr |-> "none"]
    /\ pc = "pick"
    /\ task = NoTask
    /\ expSeq = 0 /\ isFirst = TRUE /\ deadline = 0
    /\ nev = 0
    /\ frag = NoFrag /\ ev = <<>>
    /\ got = <<>> /\ reqSeq = 0 /\ removed = FALSE
    /\ runErr = "none"
    /\ queue = <<>>

\* ControlCode::from(byte)
control_code_from ==
    /\ cc.stage = "byte"
    /\ cc' = [cc EXCEPT !.stage = "code", !.code = ControlCode_from(cc.byte)]
    /\ UNCHANGED sessionVars

\* code.as_u8()
control_code_as_u8 ==
    /\ cc.stage = "code"
    /\ cc' = [cc EXCEPT !.stage = "back", !.back = ControlCode_as_u8(cc.code)]
    /\ UNCHANGED sessionVars

\* ControlCode::from(code.as_u8())
control_code_from_again ==
    /\ cc.stage = "back"
    /\ cc' = [cc EXCEPT !.stage = "again", !.again = ControlCode_from(cc.back)]
    /\ UNCHANGED sessionVars

NextControlCode == control_code_from \/ control_code_as_u8 \/ control_code_from_again

SpecControlCode == InitControlCode /\ [][NextControlCode]_vars

\* ------------------------------------------------------------ properties
\* positions in ev of the effects named e
At(e) == {i \in 1..Len(ev) : ev[i].e = e}
Has(e) == At(e) # {}
AtNext(e) == {i \in 1..Len(ev') : ev'[i].e = e}

\* the last step popped a fragment
FragStep == frag' # NoFrag

C2_OneInFlight ==
    [][/\ Cardinality(AtNext("request")) <= 1
       /\ \A i \in AtNext("request") :
             \/ pc = "pick"
             \/ /\ pc = "wait" /\ task.addr = ev'[i].addr
                /\ \E j \in 1..(i - 1) :
                      ev'[j].e = "handle" /\ ev'[j].addr = task.addr
                      /\ ev'[j].info = task.name
       /\ (pc = "pick" /\ task # NoTask)
             => (Has("complete") \/ Has("on_task_error"))]_vars

\* C2 witness: the Operate step of a select-before-operate task is in flight
C2_Witness == pc = "wait" /\ task.name = "Operate" /\ Has("request") /\ Has("handle")

\* C3: a fragment with CON=1 that is not discarded (an accepted read response, an
\* accepted non-read response, an unsolicited response the handler took as valid) has
\* exactly one confirmation written in the step that handles it, before any request
\* (the link holding).
C3_ConfirmEveryCon ==
    (frag # NoFrag /\ frag.con /\ runErr = "none"
       /\ (Has("process_response") \/ Has("handle")
           \/ \E i \in At("handle_unsolicited_response") : ev[i].info = "valid"))
    => /\ Cardinality(At("confirm_solicited") \cup At("confirm_unsolicited")) = 1
       /\ \A i \in At("request") :
             \E j \in 1..(i - 1) : ev[j].e \in {"confirm_solicited", "confirm_unsolicited"}

WellFormed(g) ==
    /\ Len(g) >= 1
    /\ \A i \in 1..Len(g) :
          /\ g[i].fir = (i = 1)
          /\ g[i].fin = (i = Len(g))
          /\ (i < Len(g)) => g[i].con

ReadEnded == task.kind = "Read" /\ pc \in {"pick", "done"}
ReadCompleted == ReadEnded /\ \E i \in At("complete") : ev[i].info = "Read"

\* C5 as stated: a read that has ended, the session still running, has completed
\* exactly if a well-formed FIR..FIN sequence with the right seqs came from the target
\* before a wait timed out.
C5_CompletesIffWellFormed ==
    (ReadEnded /\ runErr = "none") => (ReadCompleted <=> WellFormed(got))

\* C5 as amended: while the target is not removed during the read, the read completes
\* exactly if such a sequence came in, the objects of each of its fragments parsed and
\* no confirmation written for it failed on the link.
C5_CompletesIffWellFormedParsedConfirmed ==
    (task.kind = "Read" /\ ~removed)
    => (ReadCompleted <=>
           /\ WellFormed(got)
           /\ \A i \in 1..Len(got) : got[i].objects = "ok"
           /\ \A i \in At("confirm_solicited") : ev[i].ok)

\* C5 witness: a read of two or more fragments completed although an unsolicited
\* response, a dropped response or a control message came in between
C5_Witness == ReadCompleted /\ Len(got) >= 2 /\ nev > Len(got) + 2

\* C6: in a read exchange a fragment of the target with the expected seq fails the
\* task with UnexpectedFir (FIR on a later fragment), else NeverReceivedFir (no FIR on
\* the first), else NonFinWithoutCon (neither FIN nor CON); the handler does not get
\* it, nothing is confirmed and the association is as it was.
C6_ReadValidation ==
    [][(FragStep /\ pc = "wait" /\ task.kind = "Read" /\ ~frag'.unsol
          /\ frag'.src = task.addr /\ frag'.seq = expSeq)
       => LET err == IF frag'.fir /\ ~isFirst THEN "UnexpectedFir"
                     ELSE IF ~frag'.fir /\ isFirst THEN "NeverReceivedFir"
                     ELSE IF ~frag'.fin /\ ~frag'.con THEN "NonFinWithoutCon"
                     ELSE "none"
          IN  /\ err # "none" =>
                    /\ ev' = <<Ev("on_task_error",
                                  IF task.addr \in registered THEN task.addr ELSE 0,
                                  0, err, TRUE)>>
                    /\ pc' = "pick"
                    /\ UNCHANGED <<registered, seq, flags, adhoc, runErr>>
              /\ err = "none" =>
                    \A i \in AtNext("on_task_error") :
                        ev'[i].info \notin {"UnexpectedFir", "NeverReceivedFir",
                                            "NonFinWithoutCon"}]_vars

\* C6 witness: a second fragment came with FIR set after the first was accepted
C6_Witness ==
    /\ task.kind = "Read" /\ pc = "pick" /\ Len(got) = 2
    /\ \E i \in At("on_task_error") : ev[i].info = "UnexpectedFir"

\* C7: in a non-read exchange a fragment of the target with the expected seq that
\* lacks FIR or FIN fails the task with MultiFragmentResponse, its IIN is not applied
\* and the task does not handle it; only a fragment with FIR and FIN is handled.
C7_NonReadSingleFragment ==
    [][(FragStep /\ pc = "wait" /\ task.kind = "NonRead" /\ ~frag'.unsol
          /\ frag'.src = task.addr /\ frag'.seq = expSeq)
       => IF frag'.fir /\ frag'.fin
          THEN task.addr \in registered => AtNext("handle") # {}
          ELSE /\ ev' = <<Ev("on_task_error",
                             IF task.addr \in registered THEN task.addr ELSE 0,
                             0, "MultiFragmentResponse", TRUE)>>
               /\ pc' = "pick"
               /\ \A a \in Addr : flags'[a] \ flags[a] \subseteq {TaskFlag(task.name)}
               /\ UNCHANGED <<registered, seq, adhoc, runErr>>]_vars

\* C7 witness: a response with FIR, without FIN and with DEVICE_RESTART failed a task
C7_Witness ==
    /\ task.kind = "NonRead" /\ pc = "pick" /\ frag.fir /\ ~frag.fin
    /\ frag.iin = "restart"
    /\ \E i \in At("on_task_error") : ev[i].info = "MultiFragmentResponse"

\* C8: during a solicited wait a response that is not unsolicited and comes from
\* another source or with another seq is dropped: no effect at all, the association
\* state, the task and the deadline are as before and the session keeps waiting.
C8_Discard ==
    [][(FragStep /\ pc = "wait" /\ ~frag'.unsol
          /\ (frag'.src # task.addr \/ frag'.seq # expSeq))
       => /\ ev' = <<>>
          /\ pc' = "wait"
          /\ UNCHANGED <<registered, seq, flags, adhoc, task, expSeq, isFirst, deadline,
                         reqSeq, runErr>>]_vars

\* C8 witness: a response of the target with CON, DEVICE_RESTART and the wrong seq was
\* dropped during a wait
C8_Witness ==
    /\ pc = "wait" /\ frag # NoFrag /\ ~frag.unsol /\ frag.src = task.addr
    /\ frag.seq # expSeq /\ frag.con /\ frag.iin = "restart" /\ ev = <<>>

\* a step that starts a new wait: a request was written, or a non-final read
\* fragment was accepted
NewWait == AtNext("request") # {} \/ (AtNext("process_response") # {} /\ ~frag'.fin)

\* C9: while the session waits, the time left to the deadline only shrinks with the
\* clock: no control message, unsolicited response or dropped fragment moves it; the
\* task fails with ResponseTimeout only once the deadline is reached, which fails this
\* task alone.
C9_DeadlineFixed ==
    [][/\ (pc = "wait" /\ deadline = 0) => ENABLED wait_timeout
       /\ (pc = "wait" /\ pc' = "wait" /\ ~NewWait)
            => \/ deadline' = deadline
               \/ deadline' = deadline - 1 /\ ev' = <<>> /\ frag' = NoFrag
       /\ (\E i \in AtNext("on_task_error") : ev'[i].info = "ResponseTimeout")
            => /\ pc = "wait" /\ deadline = 0
               /\ pc' = "pick" /\ runErr' = "none"
               /\ Len(ev') = 1]_vars

\* C9 witness: the deadline has been reached and an unsolicited response handled
\* after that has left it where it was
C9_Witness == pc = "wait" /\ deadline = 0 /\ frag.unsol /\ Has("handle_unsolicited_response")

\* C10: an accepted read fragment is confirmed exactly if it has CON=1, final or not;
\* the one confirmation goes to the target with the seq of the fragment, after the
\* handler got the fragment and before the task completes.
C10_ReadConfirm ==
    /\ At("confirm_solicited") # {} => At("process_response") # {}
    /\ At("process_response") # {} =>
          /\ (At("confirm_solicited") # {}) <=> frag.con
          /\ Cardinality(At("confirm_solicited")) <= 1
          /\ \A i \in At("confirm_solicited") :
                /\ ev[i].addr = frag.src /\ ev[i].addr = task.addr
                /\ ev[i].seq = frag.seq
                /\ \A j \in At("process_response") : j < i
                /\ \A j \in At("complete") : i < j

\* C10 witness: a final fragment with CON=1 was confirmed and the read completed
C10_Witness ==
    /\ ReadCompleted /\ frag.fin /\ frag.con
    /\ \E i \in At("confirm_solicited") : ev[i].ok

\* the last step accepted a non-final fragment of the read in flight and the read
\* goes on
ReadNextStep ==
    /\ pc = "wait" /\ task.kind = "Read" /\ pc' = "wait"
    /\ AtNext("process_response") # {} /\ ~frag'.fin

\* what C11 says of a step that accepts a fragment of a read
ReadNextOrder ==
    /\ AtNext("process_response") # {} =>
          /\ frag'.seq = expSeq
          /\ ~isFirst => ~frag'.fir
    /\ ReadNextStep =>
          /\ \E i \in AtNext("confirm_solicited") :
                /\ ev'[i].seq = frag'.seq /\ ev'[i].addr = task.addr
                /\ \A j \in AtNext("increment_seq") : i < j
          /\ Cardinality(AtNext("increment_seq")) = 1
          /\ expSeq' = Inc(frag'.seq)
          /\ ~isFirst'
          /\ deadline' = ResponseTimeout

\* C11 as stated: in a read, the confirmation of an accepted non-final fragment with
\* seq N is written before the association's seq is incremented for the next fragment;
\* the next fragment is accepted only with seq N+1 (mod 16) and without FIR, and the
\* wait for it starts with a full response timeout.
C11_ConfirmThenNext == [][ReadNextOrder]_vars

\* C11 as amended: the same, for a read whose target association has not been removed
\* (and registered anew) while the read was in flight.
C11_ConfirmThenNextSameAssociation == [][~removed => ReadNextOrder]_vars

\* C11 witness: the second fragment of a read, non-final, was accepted with seq N+1 and
\* without FIR, and the read waits for the third
C11_Witness ==
    /\ pc = "wait" /\ task.kind = "Read" /\ ~removed /\ Len(got) = 2
    /\ ~frag.fir /\ ~frag.fin /\ frag.seq = Inc(reqSeq) /\ expSeq = Inc(Inc(reqSeq))
    /\ Has("confirm_solicited") /\ deadline = ResponseTimeout

\* the last step popped an unsolicited response
UnsolStep == FragStep /\ frag'.unsol

\* C12: an unsolicited confirmation is written exactly if the unsolicited response
\* comes from a registered association, its handler returned valid and the response
\* has CON=1; it is the only one, goes to the source and carries the seq of the
\* response.  A response from an unknown source reaches no handler and nothing is
\* written or changed for it.
C12_UnsolConfirm ==
    [][/\ AtNext("confirm_unsolicited") # {} => UnsolStep
       /\ AtNext("handle_unsolicited_response") # {} => UnsolStep
       /\ UnsolStep =>
             LET known == frag'.src \in registered
                 valid == \E i \in AtNext("handle_unsolicited_response") :
                              ev'[i].info = "valid"
             IN  /\ (AtNext("confirm_unsolicited") # {}) <=> (known /\ valid /\ frag'.con)
                 /\ Cardinality(AtNext("confirm_unsolicited")) <= 1
                 /\ \A i \in AtNext("confirm_unsolicited") :
                        ev'[i].addr = frag'.src /\ ev'[i].seq = frag'.seq
                 /\ known <=> Cardinality(AtNext("handle_unsolicited_response")) = 1
                 /\ ~known => /\ ev' = <<>>
                              /\ UNCHANGED <<registered, seq, flags, adhoc, runErr>>]_vars

\* C12 witness: during a wait an unsolicited response of another registered
\* association, with CON=1, was taken as valid and confirmed
C12_Witness ==
    /\ pc = "wait" /\ frag.unsol /\ frag.con /\ frag.src # task.addr
    /\ \E i \in At("confirm_unsolicited") :
          ev[i].ok /\ ev[i].addr = frag.src /\ ev[i].seq = frag.seq

\* C13: an unsolicited response handled during a solicited wait leaves the exchange as
\* it was: the deadline, is_first, the expected seq, the task and every association's
\* seq are the same after it; only the flags of the source, raised by its IIN, may have
\* grown.  The wait goes on unless the confirmation could not be written.
C13_UnsolInterlude ==
    [][(UnsolStep /\ pc = "wait")
       => /\ pc' = "wait" \/ \E i \in AtNext("confirm_unsolicited") : ~ev'[i].ok
          /\ pc' = "wait" =>
                /\ UNCHANGED <<deadline, isFirst, expSeq, task, seq, registered, adhoc,
                               reqSeq, got, removed, runErr>>
                /\ \A a \in Addr :
                      /\ flags[a] \subseteq flags'[a]
                      /\ (a # frag'.src \/ frag'.iin # "restart") => flags'[a] = flags[a]]_vars

\* C13 witness: between two fragments of a read, with the deadline reached, an
\* unsolicited response of the target with DEVICE_RESTART was handled and confirmed
C13_Witness ==
    /\ pc = "wait" /\ task.kind = "Read" /\ ~isFirst /\ deadline = 0
    /\ frag.unsol /\ frag.src = task.addr /\ frag.iin = "restart"
    /\ "ClearRestart" \in flags[task.addr]
    /\ Has("confirm_unsolicited")

\* the task the next query of next_task gets
NextTaskAfter ==
    next_task([reg |-> registered', seq |-> seq', flags |-> flags', adhoc |-> adhoc',
               polls |-> polls', ev |-> <<>>]).val

\* the idle session popped an unsolicited response of a registered association with
\* CON=1 and DEVICE_RESTART
IdleUnsolRestart ==
    /\ pc = "idle" /\ UnsolStep
    /\ frag'.src \in registered /\ frag'.con /\ frag'.iin = "restart"

\* C14 as stated: for such a response the handler is invoked, an unsolicited
\* confirmation with the seq of the response is written, the association raises the
\* ClearRestartBit flag and the next query of next_task returns the ClearRestartBit
\* task of that association.
C14_IdleUnsolRestart ==
    [][IdleUnsolRestart
       => /\ AtNext("handle_unsolicited_response") # {}
          /\ \E i \in AtNext("confirm_unsolicited") :
                ev'[i].addr = frag'.src /\ ev'[i].seq = frag'.seq
          /\ "ClearRestart" \in flags'[frag'.src]
          /\ NextTaskAfter = MkTask("ClearRestartBit", frag'.src)]_vars

\* C14 as amended: the handler is invoked and the flag raised; the confirmation is
\* written exactly if the handler returned valid; unless that write fails on the link,
\* the session asks next_task again and gets the ClearRestartBit task of that
\* association.
C14_IdleUnsolRestartIfValid ==
    [][IdleUnsolRestart
       => LET valid == \E i \in AtNext("handle_unsolicited_response") :
                          ev'[i].info = "valid"
              conf  == {i \in AtNext("confirm_unsolicited") :
                          ev'[i].addr = frag'.src /\ ev'[i].seq = frag'.seq}
          IN  /\ Cardinality(AtNext("handle_unsolicited_response")) = 1
              /\ "ClearRestart" \in flags'[frag'.src]
              /\ valid <=> conf # {}
              /\ \A i \in AtNext("process_iin") :
                    \A j \in AtNext("handle_unsolicited_response") : i < j
              /\ IF \E i \in conf : ~ev'[i].ok
                 THEN pc' = "done" /\ runErr' = "Link"
                 ELSE /\ pc' = "pick" /\ runErr' = "none"
                      /\ NextTaskAfter = MkTask("ClearRestartBit", frag'.src)]_vars

\* C14 witness: the idle session has confirmed an unsolicited response of association
\* 2 with CON=1 and DEVICE_RESTART, and the next query of next_task gets the
\* ClearRestartBit task of 2
C14_Witness ==
    /\ pc = "pick" /\ task = NoTask
    /\ frag.unsol /\ frag.src = 2 /\ frag.con /\ frag.iin = "restart"
    /\ \E i \in At("confirm_unsolicited") : ev[i].ok /\ ev[i].seq = frag.seq
    /\ "ClearRestart" \in flags[2]
    /\ next_task(Cur).val = MkTask("ClearRestartBit", 2)

\* the task errors that are not run errors
TaskOnlyErrors ==
    {"ResponseTimeout", "MultiFragmentResponse", "UnexpectedFir", "NeverReceivedFir",
     "NonFinWithoutCon", "NoSuchAssociation", "BadResponse"}

\* C15: run() returns only Shutdown or Link.  A step in which the task fails with any
\* other error fails that task alone: run() does not return, nothing is reset, no
\* association is dropped, no queued task is lost, and the loop is back at the query
\* of the next task.
C15_OnlyShutdownOrLinkEndsRun ==
    [][/\ runErr' \in {"none", "Shutdown", "Link"}
       /\ (pc' = "done") <=> (runErr' # "none")
       /\ \A i \in AtNext("on_task_error") :
             /\ ev'[i].info \in TaskOnlyErrors \cup {"Shutdown", "Lower"}
             /\ ev'[i].info \in TaskOnlyErrors =>
                   /\ pc' = "pick" /\ runErr' = "none"
                   /\ AtNext("reset") \cup AtNext("writer_reset")
                         \cup AtNext("reader_reset") = {}
                   /\ UNCHANGED <<registered, adhoc>>]_vars

\* C15 witness: a task failed with MultiFragmentResponse while another task was
\* queued; the queued task is still there and the loop is at the next query
C15_Witness ==
    /\ pc = "pick" /\ runErr = "none"
    /\ \E i \in At("on_task_error") : ev[i].info = "MultiFragmentResponse"
    /\ \E a \in registered : adhoc[a] # <<>>

\* C16: when run() has returned, every registered association has received reset(err)
\* once, with the error run() returned, then the transport writer and the transport
\* reader were reset; these are the last things run() did.
C16_ResetOnExit ==
    pc = "done" =>
       /\ runErr # "none"
       /\ \A a \in registered :
             Cardinality({i \in At("reset") : ev[i].addr = a /\ ev[i].info = runErr}) = 1
       /\ \A i \in At("reset") : ev[i].addr \in registered /\ ev[i].info = runErr
       /\ Len(ev) >= 2
       /\ ev[Len(ev) - 1].e = "writer_reset" /\ ev[Len(ev)].e = "reader_reset"
       /\ At("writer_reset") = {Len(ev) - 1} /\ At("reader_reset") = {Len(ev)}
       /\ \A i \in At("on_task_error"), j \in At("reset") : i < j
       /\ \A a \in Addr : adhoc[a] = <<>>

\* C16 witness: run() returned Link during an exchange with two associations
\* registered
C16_Witness ==
    /\ pc = "done" /\ runErr = "Link" /\ registered = {1, 2} /\ task # NoTask
    /\ Cardinality(At("reset")) = 2

\* the session went on without a fragment, a control message or an error
QuietStep == frag' = NoFrag /\ AtNext("recv") = {} /\ runErr' = "none"

\* C17: whenever the session waits, idle or for a response, and goes on with nothing
\* received, it could have found the control queue closed instead, and the step in
\* which it does ends run() with Shutdown: a task in flight is told
\* TaskError::Shutdown, once, a task is told Shutdown in no other step, and after run()
\* has returned the session does nothing more.
C17_ShutdownIsTerminal ==
    [][/\ (pc = "idle" /\ QuietStep)
             => ENABLED (idle_shutdown /\ pc' = "done" /\ runErr' = "Shutdown")
       /\ (pc = "wait" /\ QuietStep)
             => ENABLED (wait_shutdown /\ pc' = "done" /\ runErr' = "Shutdown")
       /\ pc # "done"
       /\ runErr' = "Shutdown" =>
             /\ pc \in {"idle", "wait"} /\ pc' = "done"
             /\ frag' = NoFrag
             /\ AtNext("request") \cup AtNext("confirm_solicited")
                   \cup AtNext("confirm_unsolicited") = {}
             /\ pc = "idle" => AtNext("on_task_error") = {}
             /\ pc = "wait" =>
                   /\ task' = task
                   /\ Cardinality(AtNext("on_task_error")) = 1
                   /\ \A i \in AtNext("on_task_error") : ev'[i].info = "Shutdown"
       /\ (\E i \in AtNext("on_task_error") : ev'[i].info = "Shutdown")
             => runErr' = "Shutdown"]_vars

\* C17 witness: the queue was found closed between two fragments of a read
C17_Witness ==
    /\ pc = "done" /\ runErr = "Shutdown" /\ task.kind = "Read" /\ Len(got) = 1
    /\ \E i \in At("on_task_error") : ev[i].info = "Shutdown"

\* C18: a transport write that fails, or a transport read that fails, during an
\* exchange fails the task of the exchange with Lower(LinkError), once, ends run()
\* with Link, and every registered association is reset with that error after the
\* task was told.  No write fails without ending run() with Link, and no task is
\* told Lower in any other step.
C18_LinkErrorEndsRun ==
    [][/\ (\E i \in 1..Len(ev') : ~ev'[i].ok) => runErr' = "Link"
       /\ (\E i \in AtNext("on_task_error") : ev'[i].info = "Lower") => runErr' = "Link"
       /\ (runErr' = "Link" /\ (pc = "wait" \/ AtNext("request") # {})) =>
             /\ pc' = "done"
             /\ Cardinality(AtNext("on_task_error")) = 1
             /\ \A i \in AtNext("on_task_error") :
                   /\ ev'[i].info = "Lower"
                   /\ ev'[i].addr \in {task'.addr, 0}
                   /\ \A j \in AtNext("reset") : i < j
                   /\ \A j \in 1..Len(ev') : ~ev'[j].ok => j < i
             /\ \A a \in registered' :
                   \E j \in AtNext("reset") : ev'[j].addr = a /\ ev'[j].info = "Link"]_vars

\* C18 witness: the transport reader failed while a read waited for its response
C18_Witness ==
    /\ pc = "done" /\ runErr = "Link" /\ task.kind = "Read" /\ frag = NoFrag
    /\ \A i \in 1..Len(ev) : ev[i].ok
    /\ \E i \in At("on_task_error") : ev[i].info = "Lower"
    /\ \E j \in At("reset") : ev[j].info = "Link"

\* C19: while a task waits for its response the session takes control messages from
\* the queue (while the run has events left) and applies each in the step that takes
\* it: a RemoveAssociation unregisters its address, even the target of the task, an
\* AddAssociation registers it, an association message is queued or refused; the
\* session is still waiting for the same response after it, under the same deadline.
C19_QueueDrainedDuringWait ==
    [][pc = "wait" =>
          /\ (nev < MaxEvents /\ task.addr \in registered) =>
                ENABLED (wait_message /\ task.addr \notin registered' /\ pc' = "wait")
          /\ \A a \in Addr \ registered :
                nev < MaxEvents => ENABLED (wait_message /\ a \in registered' /\ pc' = "wait")
          /\ AtNext("recv") # {} =>
                /\ pc' = "wait" /\ UNCHANGED <<task, expSeq, isFirst, deadline, runErr>>
                /\ \A i \in AtNext("recv") :
                      CASE ev'[i].info = "RemoveAssociation" ->
                               registered' = registered \ {ev'[i].addr}
                        [] ev'[i].info = "AddAssociation" ->
                               registered' = registered \cup {ev'[i].addr}
                        [] OTHER ->
                               IF ev'[i].addr \in registered
                               THEN Len(adhoc'[ev'[i].addr]) = Len(adhoc[ev'[i].addr]) + 1
                               ELSE AtNext("on_association_failure") # {}]_vars

\* C19 witness: the target of the read in flight was removed by a control message
\* while the read waits for its second fragment
C19_Witness ==
    /\ pc = "wait" /\ task.kind = "Read" /\ ~isFirst /\ removed
    /\ task.addr \notin registered
    /\ \E i \in At("recv") : ev[i].info = "RemoveAssociation" /\ ev[i].addr = task.addr

\* C20: an association message whose target is not registered gets its own failure
\* callback with NoSuchAssociation and nothing else happens: no association is
\* changed, run() does not return, an idle session is back at the query of the next
\* task and a waiting one goes on waiting for the same response.  The callback is
\* invoked for no other message.
C20_UnknownTargetMessage ==
    [][/\ \A i \in AtNext("recv") :
             (ev'[i].info = "Association" /\ ev'[i].addr \notin registered) =>
                /\ ev' = <<Ev("recv", ev'[i].addr, 0, "Association", TRUE),
                           Ev("on_association_failure", ev'[i].addr, 0,
                              "NoSuchAssociation", TRUE)>>
                /\ UNCHANGED <<registered, seq, flags, adhoc, runErr>>
                /\ runErr' = "none"
                /\ pc' = IF pc = "idle" THEN "pick" ELSE "wait"
                /\ pc = "wait" => UNCHANGED <<task, expSeq, isFirst, deadline>>
       /\ \A j \in AtNext("on_association_failure") :
             /\ ev'[j].addr \notin registered
             /\ \E i \in AtNext("recv") :
                   i < j /\ ev'[i].info = "Association" /\ ev'[i].addr = ev'[j].addr]_vars

\* C20 witness: while a task to association 1 waits, a message for the unregistered
\* association 2 was refused
C20_Witness ==
    /\ pc = "wait" /\ task.addr = 1 /\ registered = {1}
    /\ \E j \in At("on_association_failure") :
          ev[j].addr = 2 /\ ev[j].info = "NoSuchAssociation"

\* the message m, received while the session was connected or not, has been applied
\* in the last step
Applied(m, connected) ==
    CASE m.type = "RemoveAssociation" -> registered' = registered \ {m.addr}
      [] m.type = "AddAssociation" ->
            /\ registered' = registered \cup {m.addr}
            /\ \E i \in AtNext("callback") :
                  ev'[i].info = IF m.addr \in registered THEN "DuplicateAddress" ELSE "Ok"
      [] OTHER ->
            IF m.addr \notin registered
            THEN \E i \in AtNext("on_association_failure") : ev'[i].addr = m.addr
            ELSE IF connected
            THEN adhoc' = [adhoc EXCEPT ![m.addr] = Append(@, m.name)]
            ELSE \E i \in AtNext("task_refused") : ev'[i].addr = m.addr

\* C21: the session takes the control messages of the queue oldest first, one per
\* step, and applies each in the step that takes it, in delay_for, idle and while a
\* task waits for its response: two messages for one association take effect in the
\* order in which they were sent.
C21_ArrivalOrder ==
    [][/\ Cardinality(AtNext("recv")) <= 1
       /\ queue' # queue => queue # <<>> /\ AtNext("recv") # {}
       /\ (AtNext("recv") # {} /\ queue # <<>>) =>
             /\ queue' = Tail(queue)
             /\ ev'[1] = Ev("recv", Head(queue).addr, 0, Head(queue).type, TRUE)
             /\ Applied(Head(queue), pc # "delay")
             /\ pc \in {"delay", "idle", "wait"}
             /\ pc' = IF pc = "idle" THEN "pick" ELSE pc]_vars

\* C21 witness: of two queued messages for association 1, the task was taken while
\* the session was idle and the RemoveAssociation while that task waited for its
\* response
C21_Witness ==
    /\ pc = "wait" /\ queue = <<>> /\ nev = 3 /\ removed /\ task.addr = 1
    /\ \E i \in At("recv") : ev[i].info = "RemoveAssociation" /\ ev[i].addr = 1

\* C22: when the Select step of a select-before-operate task has handled its response
\* and handle returned the Operate step, the session writes the Operate request with
\* the association's seq, advanced by one by that, and waits for its response as the
\* new task, matching it against the new seq under a full response timeout.  A
\* NonRead response is handled only with the seq of the current step's request, and a
\* NonRead task completes only in a step in which its handle returned None.
C22_NextStep ==
    [][/\ \A j \in AtNext("handle") :
             /\ pc = "wait" /\ task.kind = "NonRead" /\ ev'[j].info = task.name
             /\ frag'.src = task.addr /\ frag'.seq = expSeq /\ expSeq = reqSeq
             /\ (task.name = "Select" /\ frag'.objects = "ok") =>
                   /\ AtNext("complete") = {}
                   /\ seq'[task.addr] = Inc(seq[task.addr])
                   /\ \E i \in AtNext("request") :
                         /\ j < i /\ ev'[i].info = "Operate" /\ ev'[i].addr = task.addr
                         /\ ev'[i].seq = seq[task.addr]
                         /\ IF ev'[i].ok
                            THEN /\ pc' = "wait" /\ task' = MkTask("Operate", task.addr)
                                 /\ expSeq' = ev'[i].seq
                                 /\ ~removed => expSeq' = Inc(expSeq)
                                 /\ deadline' = ResponseTimeout
                            ELSE runErr' = "Link"
       /\ \A c \in AtNext("complete") :
             ev'[c].info # "Read" =>
                /\ task.name # "Select" /\ ev'[c].info = task.name
                /\ AtNext("request") = {} /\ pc' = "pick"
                /\ \E j \in AtNext("handle") : j < c]_vars

\* C22 witness: the Operate step got its response with the seq of its own request and
\* the task completed
C22_Witness ==
    /\ pc = "pick" /\ task.name = "Operate" /\ frag.seq = reqSeq /\ frag.src = task.addr
    /\ \E c \in At("complete") : ev[c].info = "Operate"

\* C23: a task whose target is not registered when its request is to be sent fails
\* with NoSuchAssociation and nothing else happens: no request is written, no seq and
\* no association changes, the task's error callback runs once, without an
\* association, run() does not return and the loop is back at the query of the next
\* task.  A task whose target is registered has its request written.
C23_UnregisteredTarget ==
    [][nev' = nev + 1 =>
          IF task'.addr \notin registered
          THEN /\ ev' = <<Ev("on_task_error", 0, 0, "NoSuchAssociation", TRUE)>>
               /\ UNCHANGED <<registered, seq, flags, adhoc, runErr>>
               /\ pc' = "pick" /\ runErr' = "none"
          ELSE /\ Cardinality(AtNext("request")) = 1
               /\ \A i \in AtNext("request") : ev'[i].addr = task'.addr]_vars

\* C23 witness: a Read task for association 2 failed while only association 1 was
\* registered
C23_Witness ==
    /\ pc = "pick" /\ task = MkTask("Read", 2) /\ registered = {1}
    /\ ev = <<Ev("on_task_error", 0, 0, "NoSuchAssociation", TRUE)>>


\* C24: one query of next_task returns one task, the same for the same pending flags:
\* when an association has a pending flag, the task is the one of the first such
\* association in address order, for ClearRestart before DisableUnsolicited before
\* IntegrityPoll before EnableUnsolicited, whatever polls are due and whatever ad-hoc
\* tasks are queued; and these stay as they were.
C24_NextTaskPriority ==
    [][pc = "pick" /\ pc' = "picked" =>
          LET F == {a \in registered : flags[a] # {}}
          IN  /\ Len(ev') = 1 /\ ev'[1].e = "next_task"
              /\ F = {} => TaskFlag(task'.name) = "none"
              /\ \A a \in F : (\A b \in F : a <= b) =>
                    /\ ev'[1].info = "Now"
                    /\ task'.addr = a
                    /\ task'.name =
                          IF "ClearRestart" \in flags[a] THEN "ClearRestartBit"
                          ELSE IF "DisableUnsolicited" \in flags[a] THEN "DisableUnsolicited"
                          ELSE IF "IntegrityPoll" \in flags[a] THEN "IntegrityPoll"
                          ELSE "EnableUnsolicited"
                    /\ UNCHANGED <<polls, adhoc, flags>>]_vars

\* DisableUnsolicited of association 1 was returned while its EnableUnsolicited flag
\* and a due poll were pending and association 2 had the ClearRestart flag
C24_Witness ==
    /\ pc = "picked" /\ task = MkTask("DisableUnsolicited", 1)
    /\ flags[1] = {"DisableUnsolicited", "IntegrityPoll", "EnableUnsolicited"}
    /\ "ClearRestart" \in flags[2]
    /\ polls[1] = "due" /\ adhoc[1] # <<>>
\* the place of a flag in the order the flags are served
Pri(fl) == CHOOSE i \in DOMAIN FlagOrder : FlagOrder[i] = fl

\* C25: when the task of a housekeeping flag completes on its response, the flag is
\* cleared and the task has no further step; when the task fails while run() goes on
\* and the association is registered, the flag is pending again and the next query of
\* next_task returns that task or one that is served before it; and a pending flag
\* stays pending until its task completes.
C25_FlagLifecycle ==
    [][/\ \A i \in AtNext("complete") :
             TaskFlag(ev'[i].info) # "none" =>
                /\ TaskFlag(ev'[i].info) \notin flags'[ev'[i].addr]
                /\ pc' = "pick" /\ AtNext("request") = {}
       /\ \A i \in AtNext("on_task_error") :
             LET a  == ev'[i].addr
                 fl == TaskFlag(task'.name)
                 n  == NextTaskAfter
             IN  (a # 0 /\ fl # "none" /\ runErr' = "none") =>
                    /\ a = task'.addr /\ a \in registered'
                    /\ fl \in flags'[a]
                    /\ pc' = "pick"
                    /\ TaskFlag(n.name) # "none"
                    /\ \/ n.addr < a
                       \/ n.addr = a /\ Pri(TaskFlag(n.name)) <= Pri(fl)
       /\ \A a \in registered \cap registered' : \A fl \in flags[a] :
             \/ fl \in flags'[a]
             \/ \E i \in AtNext("complete") :
                   ev'[i].addr = a /\ TaskFlag(ev'[i].info) = fl]_vars

\* DisableUnsolicited of association 1 timed out: its flag is pending and next_task
\* returns the task again
C25_Witness ==
    /\ pc = "pick" /\ task = MkTask("DisableUnsolicited", 1) /\ runErr = "none"
    /\ \E i \in At("on_task_error") : ev[i].addr = 1 /\ ev[i].info = "ResponseTimeout"
    /\ "DisableUnsolicited" \in flags[1]
    /\ next_task(Cur).val = task
\* a read accepted a fragment in the last step, and this step pops a fragment of the
\* target with the same seq, FIR and FIN
DuplicateStep ==
    /\ pc = "wait" /\ task.kind = "Read" /\ Has("process_response")
    /\ ~frag.unsol /\ frag.src = task.addr
    /\ FragStep /\ ~frag'.unsol /\ frag'.src = frag.src
    /\ frag'.seq = frag.seq /\ frag'.fir = frag.fir /\ frag'.fin = frag.fin

\* the duplicate is dropped: no handler call, no confirmation, no task error
DuplicateDropped ==
    /\ ev' = <<>>
    /\ pc' = "wait"
    /\ UNCHANGED <<registered, seq, flags, adhoc, task, expSeq, isFirst, runErr>>

\* C26: in a read, a fragment with the seq, FIR and FIN of the fragment accepted just
\* before it is discarded: the handler is not called again, no confirmation is
\* written, the task does not fail.
C26_DuplicateDiscarded == [][DuplicateStep => DuplicateDropped]_vars

\* C26 while the target was not removed by a control message during the read
C26_DuplicateDiscardedSameAssociation ==
    [][(DuplicateStep /\ ~removed) => DuplicateDropped]_vars

\* the first fragment of a read of association 1 came again and was dropped
C26_Witness ==
    /\ pc = "wait" /\ task.kind = "Read" /\ ~isFirst /\ ~removed
    /\ ev = <<>> /\ ~frag.unsol /\ frag.src = task.addr
    /\ frag.fir /\ ~frag.fin /\ frag.con /\ frag.seq = reqSeq /\ expSeq = Inc(reqSeq)
\* the on_response calls of the step
Delivered == {i \in AtNext("on_response") : ev'[i].seq = frag'.seq}

\* C27: a read fragment that is accepted goes to the read handler once, in the step
\* that accepts it (so in the order of acceptance), with the address of the outstation
\* it came from as the source; a fragment that is not accepted does not go to it.
C27_DeliveredWithSource ==
    [][IF AtNext("process_response") # {}
       THEN /\ Cardinality(AtNext("on_response")) = 1
            /\ Delivered = AtNext("on_response")
            /\ \A i \in Delivered : ev'[i].addr = frag'.src
       ELSE AtNext("on_response") = {}]_vars

\* C27 without the source
C27_DeliveredOnce ==
    [][IF AtNext("process_response") # {}
       THEN /\ Cardinality(AtNext("on_response")) = 1
            /\ Delivered = AtNext("on_response")
            /\ \A i \in Delivered, j \in AtNext("process_response") : j < i
       ELSE AtNext("on_response") = {}]_vars

\* the first fragment of a read of association 1 went to the handler
C27_Witness ==
    /\ pc = "wait" /\ task.kind = "Read" /\ ~isFirst
    /\ frag.src = 1 /\ frag.fir /\ ~frag.fin
    /\ Has("process_response") /\ Has("on_response")
\* C28: the seq of an association moves only in a step of the exchange whose target it
\* is: the step that writes the request to it, or the step in which the read that
\* targets it accepts a solicited fragment of it.  A control message, a fragment popped
\* while the session is idle, an unsolicited fragment and any step of an exchange with
\* another target leave it as it is.
C28_SeqOnlyByActiveTarget ==
    [][\A a \in registered \cap registered' :
          /\ seq'[a] # seq[a] =>
                /\ task'.addr = a
                /\ \/ \E i \in AtNext("request") : ev'[i].addr = a
                   \/ /\ pc = "wait" /\ task.kind = "Read" /\ task.addr = a
                      /\ FragStep /\ ~frag'.unsol /\ frag'.src = a /\ frag'.seq = expSeq
          /\ (AtNext("recv") # {} \/ (FragStep /\ (pc = "idle" \/ frag'.unsol))
                \/ (pc = "wait" /\ pc' = "wait" /\ task.addr # a))
             => seq'[a] = seq[a]]_vars

\* a control message for the target of the read in flight was processed during the
\* wait, and the target's seq is the one the request left
C28_Witness ==
    /\ pc = "wait" /\ task.kind = "Read" /\ task.addr \in registered /\ ~removed
    /\ \E i \in At("recv") : ev[i].addr = task.addr
    /\ seq[task.addr] = Inc(reqSeq)
\* the variant a field value stands for
TccOf(x) == IF x = 0 THEN "Nul" ELSE IF x = 1 THEN "Close" ELSE IF x = 2 THEN "Trip"
            ELSE "Reserved"
OpOf(x) == IF x = 0 THEN "Nul" ELSE IF x = 1 THEN "PulseOn" ELSE IF x = 2 THEN "PulseOff"
           ELSE IF x = 3 THEN "LatchOn" ELSE IF x = 4 THEN "LatchOff" ELSE "Unknown"

\* C29: the code made from a byte has tcc from bits 7-6, clear from bit 5, queue from
\* bit 4 and op_type from bits 3-0; its as_u8 is the byte again; and the code made from
\* that byte is the code again.
C29_ControlCodeRoundTrip ==
    /\ cc.stage \in {"code", "back", "again"} =>
          /\ cc.code.tcc.variant = TccOf(cc.byte \div 64)
          /\ cc.code.clear = ((cc.byte \div 32) % 2 = 1)
          /\ cc.code.queue = ((cc.byte \div 16) % 2 = 1)
          /\ cc.code.op_type.variant = OpOf(cc.byte % 16)
          /\ cc.code.op_type.variant = "Unknown" => cc.code.op_type.value = cc.byte % 16
    /\ cc.stage \in {"back", "again"} => cc.back = cc.byte
    /\ cc.stage = "again" => cc.again = cc.code

\* 0b10_1_1_0100 became Trip, clear, queue, LatchOff and went back to the byte
C29_Witness ==
    /\ cc.stage = "again" /\ cc.byte = 180 /\ cc.back = 180
    /\ cc.code = [tcc |-> Known("Trip"), clear |-> TRUE, queue |-> TRUE,
                  op_type |-> Known("LatchOff")]
    /\ cc.again = cc.code
\* a read popped a fragment of its target with the expected seq that passes the
\* validation of FIR, FIN and CON and whose objects do not parse
BadObjectsStep ==
    /\ pc = "wait" /\ task.kind = "Read" /\ task.addr \in registered
    /\ FragStep /\ ~frag'.unsol /\ frag'.src = task.addr /\ frag'.seq = expSeq
    /\ frag'.fir = isFirst /\ (frag'.fin \/ frag'.con)
    /\ frag'.objects = "err"

\* C30: such a fragment fails the task with BadResponse and nothing else happens: no
\* call of the read handler, no confirmation even with CON=1, no seq moved; run() goes
\* on with the next task.
C30_BadResponse ==
    [][BadObjectsStep =>
          /\ ev' = <<Ev("on_task_error", task.addr, 0, "BadResponse", TRUE)>>
          /\ pc' = "pick" /\ runErr' = "none"
          /\ UNCHANGED <<registered, seq, adhoc>>]_vars

\* a first fragment with CON=1 whose objects did not parse ended the read
C30_Witness ==
    /\ pc = "pick" /\ task.kind = "Read" /\ runErr = "none"
    /\ frag.src = task.addr /\ frag.seq = reqSeq /\ frag.fir /\ ~frag.fin /\ frag.con
    /\ frag.objects = "err"
    /\ ev = <<Ev("on_task_error", task.addr, 0, "BadResponse", TRUE)>>
\* the effects a control message can have
MessageEffects == {"recv", "callback", "task_refused", "on_association_failure"}

\* C31: a step of delay_for either takes one control message, applies it with
\* is_connected = false (a task for a registered association is refused, not queued)
\* and stays in the delay; or returns Ok because the deadline is reached; or returns
\* Shutdown because the queue is closed.  No step of it pops a fragment, writes to the
\* transport or moves a seq; while it runs it can always take a message or end.
C31_DelayFor ==
    [][pc = "delay" =>
          /\ frag' = NoFrag
          /\ \A i \in DOMAIN ev' : ev'[i].e \in MessageEffects
          /\ \A a \in registered \cap registered' :
                seq'[a] = seq[a] /\ adhoc'[a] = adhoc[a] /\ flags'[a] = flags[a]
          /\ UNCHANGED <<task, runErr>>
          /\ pc' \in {"delay", "pick", "stopped"}
          /\ pc' = "delay" =>
                /\ Cardinality(AtNext("recv")) = 1
                /\ \A i \in AtNext("recv") :
                      (ev'[i].info \notin {"AddAssociation", "RemoveAssociation"}
                         /\ ev'[i].addr \in registered)
                      => \E j \in AtNext("task_refused") :
                            i < j /\ ev'[j].addr = ev'[i].addr
          /\ pc' \in {"pick", "stopped"} =>
                /\ ev' = <<>>
                /\ UNCHANGED <<registered, seq, flags, adhoc, queue>>
          /\ pc' = "stopped" => queue = <<>>
          /\ ENABLED (delay_elapsed /\ pc' = "pick")
          /\ nev < MaxEvents => ENABLED (delay_message /\ pc' = "delay")
          /\ queue = <<>> => ENABLED (delay_shutdown /\ pc' = "stopped")]_vars

\* a task for association 1 came during the delay and was refused; another control
\* message waits in the queue
C31_Witness ==
    /\ pc = "delay" /\ Len(queue) = 1 /\ 1 \in registered /\ adhoc[1] = <<>>
    /\ \E i \in At("task_refused") : ev[i].addr = 1 /\ ev[i].info = "NoConnection"
\* C32: while the session is idle, a fragment that is not unsolicited is dropped: no
\* effect, nothing written, no association changed, and run() queries next_task again;
\* a control message ends the idle wait and run() queries next_task again; and when
\* the session waits for the instant of a poll, the timer can fire, which changes no
\* association but makes the poll due, and run() queries next_task again, which then
\* returns that poll.
C32_IdleWake ==
    [][pc = "idle" =>
          /\ (FragStep /\ ~frag'.unsol) =>
                /\ ev' = <<>>
                /\ pc' = "pick" /\ task' = NoTask
                /\ UNCHANGED <<registered, seq, flags, adhoc, polls, runErr>>
          /\ AtNext("recv") # {} => pc' = "pick" /\ runErr' = "none" /\ task' = NoTask
          /\ QuietStep =>
                /\ ev' = <<>>
                /\ pc' = "pick" /\ task' = NoTask
                /\ UNCHANGED <<registered, seq, flags, adhoc>>
                /\ polls' # polls =>
                      /\ next_task(Cur).out = "NotBefore"
                      /\ NextTaskAfter.name = "Poll"
                /\ next_task(Cur).out = "NotBefore" =>
                      ENABLED (idle_timer /\ pc' = "pick" /\ polls' # polls)]_vars

\* the session waited for the instant of the poll of association 1 and the timer fired
C32_Witness ==
    /\ pc = "pick" /\ task = NoTask /\ frag = NoFrag /\ ev = <<>> /\ nev = 0
    /\ polls[1] = "due" /\ next_task(Cur).val = MkTask("Poll", 1)
\* the terminal notifications of the step: completions and task errors
Notes == AtNext("complete") \cup AtNext("on_task_error")

\* C33: a task gets one terminal notification, in the step in which it ends: the step
\* that takes run() from the exchange (or from the failed write of its first request)
\* back to the top of its loop or out of run() has exactly one completion or task
\* error, which is about the step of the task that was current; no other step has any.
C33_OneNotification ==
    [][/\ Cardinality(Notes) <= 1
       /\ (pc' \in {"wait", "idle"} \/ pc = "idle") => Notes = {}
       /\ (pc = "wait" /\ pc' \in {"pick", "done"}) => Cardinality(Notes) = 1
       /\ (pc = "pick" /\ pc' \in {"pick", "done"}) => Cardinality(Notes) = 1
       /\ \A i \in Notes :
             /\ task' # NoTask
             /\ ev'[i].addr \in {task'.addr, 0}
             /\ ev'[i].e = "complete" =>
                   /\ ev'[i].info = task'.name /\ ev'[i].addr = task'.addr
                   /\ pc' = "pick" /\ runErr' = "none"
             /\ ev'[i].e = "on_task_error" =>
                   /\ ev'[i].addr = 0 <=> task'.addr \notin registered'
                   /\ Fatal(ev'[i].info) <=> pc' = "done"
             /\ task' # task /\ pc = "wait" =>
                   /\ task.name = "Select" /\ task'.name = "Operate"
                   /\ \E j \in AtNext("handle") : j < i /\ ev'[j].info = "Select"]_vars

\* the Operate step of a select-before-operate task timed out: the one notification is
\* the error of that step
C33_Witness ==
    /\ pc = "pick" /\ task.name = "Operate" /\ runErr = "none"
    /\ ev = <<Ev("on_task_error", task.addr, 0, "ResponseTimeout", TRUE)>>
\* the exchange in flight, whose target is not registered any more, popped a response
\* of the target with the expected seq that passes the validation of its kind
OrphanResponseStep ==
    /\ pc = "wait" /\ task.addr \notin registered
    /\ FragStep /\ ~frag'.unsol /\ frag'.src = task.addr /\ frag'.seq = expSeq
    /\ IF task.kind = "Read"
       THEN frag'.fir = isFirst /\ (frag'.fin \/ frag'.con)
       ELSE frag'.fir /\ frag'.fin

====
